---- MODULE Spec2Model ----
(***************************************************************************)
(* FigmaConverterService (apps/server/.../application/figma-converter      *)
(* .service.ts): convert(rootNode) locates the artboards of a Figma node   *)
(* tree, walks each of them with processNode, which pushes one CSS rule    *)
(* per visited node to a per-call context and returns the node's HTML      *)
(* fragment, and joins the fragments and the rules into {html, css}.       *)
(*                                                                         *)
(* The node tree is a table: node i of `tree` holds its fields and the     *)
(* indices of its children; nodes are numbered in document order (a node   *)
(* before its descendants, siblings left to right).  Strings the code      *)
(* transforms (ids, class names, text) are sequences of characters; the    *)
(* HTML is a sequence of tokens (open tag with its class, text, close      *)
(* tag); a CSS rule is a selector with its sequence of declarations.       *)
(* The recursion of processNode is an explicit call stack.                 *)
(*                                                                         *)
(* FigmaApiService (apps/server/.../infrastructure/figma-api.service.ts):  *)
(* getFile requests the file and retries transient failures after a sleep; *)
(* its steps are the requests and the sleeps of one call.                  *)
(***************************************************************************)
EXTENDS Integers, Sequences, FiniteSets, TLC

VARIABLES
    rootNode,        \* convert's argument: Null or the index of the root
    tree,            \* the node table of the input document
    pc,              \* "idle" | "walking" | "done" | "failed"
    nodesToProcess,  \* convert: artboards, or [rootNode]
    context,         \* convert: { cssRules, idCounter }
    artboardIndex,   \* convert: position of nodesToProcess.map
    artboardsHtml,   \* convert: fragments returned so far, joined
    stack,           \* frames of the processNode calls in progress
    result,          \* convert's return value { html, css }
    error,           \* the exception convert ended with, if any
    emitted,         \* history: the node each pushed rule was built for
    log,             \* history: input and output of the earlier convert calls
    apiPc,           \* getFile: "idle" | "requesting" | "sleeping" | "returned" | "thrown"
    attempt,         \* fetchWithRetry: its parameter attempt
    requests,        \* history: the number of axios.get calls made
    delays,          \* history: the delays slept, in order
    responses,       \* history: the outcome of each axios.get, in order
    exception        \* the HttpException getFile ended with, if any

\* the state of FigmaApiService.getFile
apiVars == <<apiPc, attempt, requests, delays, responses, exception>>

\* the state of FigmaConverterService.convert
converterVars == <<rootNode, tree, pc, nodesToProcess, context, artboardIndex,
                   artboardsHtml, stack, result, error, emitted, log>>

vars == <<rootNode, tree, pc, nodesToProcess, context, artboardIndex,
          artboardsHtml, stack, result, error, emitted, log,
          apiPc, attempt, requests, delays, responses, exception>>

----------------------------------------------------------------------------
(* Bounds of the explored inputs *)

MaxNodes == 3
MaxLayoutChildren == 2
MaxPaints == 2
MaxCalls == 2

\* characters of a text node
MaxTextLen == 3

\* characters of a node id
MaxIdLen == 3

\* effects per node
MaxEffects == 2

Null == 0

----------------------------------------------------------------------------
(* Generic helpers *)

Range(s) == {s[i] : i \in DOMAIN s}

RECURSIVE Flatten(_)
Flatten(ss) == IF ss = <<>> THEN <<>> ELSE Head(ss) \o Flatten(Tail(ss))

----------------------------------------------------------------------------
(* Domain types (domain/figma.types.ts) *)

NoBox == [defined |-> FALSE, x |-> 0, y |-> 0, width |-> 0, height |-> 0]

Box(bx, by) == [defined |-> TRUE, x |-> bx, y |-> by, width |-> 100, height |-> 40]

\* TypeStyle; 0 is "absent or 0" for lineHeightPx and letterSpacing
NoStyle == [defined |-> FALSE, fontFamily |-> "undefined", fontSize |-> 0,
            fontWeight |-> 0, lineHeightPx |-> 0, letterSpacing |-> 0,
            textAlignHorizontal |-> "undefined",
            textAlignVertical |-> "undefined"]

\* An optional number is <<>> (absent) or <<v>>.  Colour channels, alpha,
\* opacity and stop positions are fractions of 1 and are held in thousandths.
NoColor == [defined |-> FALSE, r |-> 0, g |-> 0, b |-> 0, a |-> <<>>]

Color(cr, cg, cb, ca) == [defined |-> TRUE, r |-> cr, g |-> cg, b |-> cb, a |-> ca]

\* an optional array: absent, or its items
Absent == [defined |-> FALSE, items |-> <<>>]

Items(xs) == [defined |-> TRUE, items |-> xs]

Vector(vx, vy) == [x |-> vx, y |-> vy]

ColorStop(pos, col) == [position |-> pos, color |-> col]

\* A Paint with every optional field absent.  `visible` TRUE is "true or
\* absent" (the code only tests visible !== false).
Paint(ptype) ==
    [type |-> ptype, visible |-> TRUE, opacity |-> <<>>, color |-> NoColor,
     gradientHandlePositions |-> Absent, gradientStops |-> Absent,
     imageRef |-> ""]

\* An Effect with every optional field absent.  `visible` FALSE is "false or
\* absent" (the code tests e.visible); 0 is "absent or 0" for the numbers.
Effect(etype) ==
    [type |-> etype, visible |-> FALSE, radius |-> 0, spread |-> 0,
     offset |-> Vector(0, 0), color |-> NoColor]

\* A FigmaNode with every optional field absent.  `visible` TRUE is "true or
\* absent" (the code only tests visible === false); `children` <<>> is "absent
\* or []" (the code reads children only through map/filter/some/length);
\* 0 is "absent or 0" for the fields the code reads as (field || 0) or tests
\* for truth; `strokes` and `effects` <<>> are "absent or []" (for both the
\* code pushes nothing); `fills` and `rectangleCornerRadii` tell absent from [].
FigmaNode(nid, ntype) ==
    [id |-> nid, type |-> ntype, visible |-> TRUE, children |-> <<>>,
     absoluteBoundingBox |-> NoBox, layoutMode |-> "undefined",
     layoutPositioning |-> "undefined", characters |-> <<>>,
     style |-> NoStyle, itemSpacing |-> 0,
     paddingTop |-> 0, paddingRight |-> 0, paddingBottom |-> 0, paddingLeft |-> 0,
     counterAxisAlignItems |-> "undefined", primaryAxisAlignItems |-> "undefined",
     fills |-> Absent, backgroundColor |-> NoColor, strokes |-> <<>>,
     strokeWeight |-> 0, cornerRadius |-> 0, rectangleCornerRadii |-> Absent,
     effects |-> <<>>]

----------------------------------------------------------------------------
(* Strings *)

Letters == {"a","b","c","d","e","f","g","h","i","j","k","l","m","n","o","p","q","r",
            "s","t","u","v","w","x","y","z","A","B","C","D","E","F","G","H","I","J",
            "K","L","M","N","O","P","Q","R","S","T","U","V","W","X","Y","Z"}

Digits == {"0","1","2","3","4","5","6","7","8","9"}

\* s.replace(/c/g, r): every occurrence of the character c becomes the string r
ReplaceAll(s, c, r) ==
    Flatten([i \in DOMAIN s |-> IF s[i] = c THEN r ELSE <<s[i]>>])

\* SanitizeId with - and _ left out of the character class
SanitizeIdAlphanumeric(nid) ==
    [i \in DOMAIN nid |-> IF nid[i] \in Letters \cup Digits THEN nid[i] ELSE "-"]

\* node.id.replace(/[^a-zA-Z0-9-_]/g, '-')
SanitizeId(nid) ==
    [i \in DOMAIN nid |->
        IF nid[i] \in Letters \cup Digits \cup {"-", "_"} THEN nid[i] ELSE "-"]

\* `node-${...}`
ClassName(nid) == <<"n","o","d","e","-">> \o SanitizeId(nid)

\* EscapeText with & replaced after < and >
EscapeTextAmpersandLast(characters) ==
    LET s1 == ReplaceAll(characters, "<", <<"&","l","t",";">>)
        s2 == ReplaceAll(s1, ">", <<"&","g","t",";">>)
        s3 == ReplaceAll(s2, "&", <<"&","a","m","p",";">>)
    IN  ReplaceAll(s3, "\n", <<"<","b","r","/",">">>)

\* characters.replace(/&/g,'&amp;').replace(/</g,'&lt;').replace(/>/g,'&gt;')
\*           .replace(/\n/g,'<br/>')
EscapeText(characters) ==
    LET s1 == ReplaceAll(characters, "&", <<"&","a","m","p",";">>)
        s2 == ReplaceAll(s1, "<", <<"&","l","t",";">>)
        s3 == ReplaceAll(s2, ">", <<"&","g","t",";">>)
    IN  ReplaceAll(s3, "\n", <<"<","b","r","/",">">>)

----------------------------------------------------------------------------
(* HTML tokens and CSS rules *)

OpenTag(class) == [kind |-> "open", class |-> class, text |-> <<>>]

CloseTag == [kind |-> "close", class |-> <<>>, text |-> <<>>]

Text(chars) == [kind |-> "text", class |-> <<>>, text |-> chars]

\* `<div class="${className}">${content}</div>`; empty content adds no token
Div(class, content) == <<OpenTag(class)>> \o content \o <<CloseTag>>

\* one declaration `prop: ...;` : a keyword value, or numbers with a unit
Decl(prop, kw, nums) == [prop |-> prop, kw |-> kw, nums |-> nums, args |-> <<>>]

\* a declaration whose value has parts: colour stops, shadows
DeclArgs(prop, kw, nums, args) == [prop |-> prop, kw |-> kw, nums |-> nums, args |-> args]

Px(prop, n) == Decl(prop, "px", <<n>>)

\* `.${className} { ${styles} }`
Rule(selector, styles) == [selector |-> selector, styles |-> styles]

ArtboardsContainerClass == <<"a","r","t","b","o","a","r","d","s","-",
                             "c","o","n","t","a","i","n","e","r">>

\* the three rules of baseCss, in order: body, *, .artboards-container
BaseCss ==
    << Rule(<<"b","o","d","y">>,
            << Decl("font-family", "sans-serif", <<>>), Decl("margin", "0", <<>>),
               Decl("padding", "0", <<>>), Decl("display", "flex", <<>>),
               Decl("justify-content", "center", <<>>),
               Decl("align-items", "center", <<>>),
               Decl("min-height", "vh", <<100>>),
               Decl("background-color", "#f5f5f5", <<>>) >>),
       Rule(<<"*">>, << Decl("box-sizing", "border-box", <<>>) >>),
       Rule(ArtboardsContainerClass,
            << Decl("display", "flex", <<>>),
               Decl("flex-direction", "column", <<>>),
               Px("gap", 32), Px("padding", 32),
               Decl("align-items", "center", <<>>) >>) >>

----------------------------------------------------------------------------
(* generateStyles *)

\* node.layoutMode && node.layoutMode !== 'NONE'
HasAutoLayout(node) == node.layoutMode # "undefined" /\ node.layoutMode # "NONE"

\* node.children && node.children.length > 0 && node.children.some(child =>
\*   child.layoutPositioning === 'ABSOLUTE' ||
\*   (!child.layoutMode || child.layoutMode === 'NONE'))
HasAbsoluteChildren(node) ==
    /\ Len(node.children) > 0
    /\ \E i \in DOMAIN node.children :
          \/ node.children[i].layoutPositioning = "ABSOLUTE"
          \/ node.children[i].layoutMode = "undefined"
          \/ node.children[i].layoutMode = "NONE"

\* if (node.absoluteBoundingBox) push width, height
DimensionStyles(node) ==
    IF node.absoluteBoundingBox.defined
    THEN << Px("width", node.absoluteBoundingBox.width),
            Px("height", node.absoluteBoundingBox.height) >>
    ELSE <<>>

\* OffsetStyles with the parent's origin forgotten: left and top are the
\* node's absolute coordinates
OffsetStylesAbsoluteCoordinates(node, parentNode) ==
    IF node.absoluteBoundingBox.defined /\ parentNode.absoluteBoundingBox.defined
    THEN << Px("left", node.absoluteBoundingBox.x),
            Px("top", node.absoluteBoundingBox.y) >>
    ELSE <<>>

\* if (node.absoluteBoundingBox && parentNode.absoluteBoundingBox) push left, top
OffsetStyles(node, parentNode) ==
    IF node.absoluteBoundingBox.defined /\ parentNode.absoluteBoundingBox.defined
    THEN << Px("left", node.absoluteBoundingBox.x - parentNode.absoluteBoundingBox.x),
            Px("top", node.absoluteBoundingBox.y - parentNode.absoluteBoundingBox.y) >>
    ELSE <<>>

\* PositionStyles with the auto-layout parent tested before layoutPositioning
PositionStylesFlexParentFirst(node, parentNode, isRoot) ==
    IF isRoot
    THEN << Decl("position", "relative", <<>>), Decl("overflow", "hidden", <<>>),
            Decl("background-color", "white", <<>>) >>
    ELSE IF HasAutoLayout(parentNode)
    THEN IF HasAbsoluteChildren(node)
         THEN << Decl("position", "relative", <<>>) >>
         ELSE << Decl("position", "static", <<>>) >>
    ELSE << Decl("position", "absolute", <<>>) >> \o OffsetStyles(node, parentNode)

\* PositionStyles with the offsets pushed for a child of an auto-layout
\* parent as well
PositionStylesOffsetsInFlow(node, parentNode, isRoot) ==
    IF isRoot
    THEN << Decl("position", "relative", <<>>), Decl("overflow", "hidden", <<>>),
            Decl("background-color", "white", <<>>) >>
    ELSE IF node.layoutPositioning = "ABSOLUTE"
    THEN << Decl("position", "absolute", <<>>) >> \o OffsetStyles(node, parentNode)
    ELSE IF HasAutoLayout(parentNode)
    THEN (IF HasAbsoluteChildren(node)
          THEN << Decl("position", "relative", <<>>) >>
          ELSE << Decl("position", "static", <<>>) >>) \o OffsetStyles(node, parentNode)
    ELSE << Decl("position", "absolute", <<>>) >> \o OffsetStyles(node, parentNode)

\* the if / else-if chain of the positioning strategy
PositionStyles(node, parentNode, isRoot) ==
    IF isRoot
    THEN << Decl("position", "relative", <<>>), Decl("overflow", "hidden", <<>>),
            Decl("background-color", "white", <<>>) >>
    ELSE IF node.layoutPositioning = "ABSOLUTE"
    THEN << Decl("position", "absolute", <<>>) >> \o OffsetStyles(node, parentNode)
    ELSE IF HasAutoLayout(parentNode)
    THEN IF HasAbsoluteChildren(node)
         THEN << Decl("position", "relative", <<>>) >>
         ELSE << Decl("position", "static", <<>>) >>
    ELSE IF HasAbsoluteChildren(node)
    THEN << Decl("position", "absolute", <<>>) >> \o OffsetStyles(node, parentNode)
    ELSE << Decl("position", "absolute", <<>>) >> \o OffsetStyles(node, parentNode)

\* mapFigmaAlignToCSS with the keywords start and end for MIN, MAX and the
\* fallback
mapFigmaAlignToCSSStartEnd(alignment) ==
    CASE alignment = "MAX"           -> "end"
      [] alignment = "CENTER"        -> "center"
      [] alignment = "BASELINE"      -> "baseline"
      [] alignment = "STRETCH"       -> "stretch"
      [] alignment = "SPACE_BETWEEN" -> "space-between"
      [] OTHER                       -> "start"

\* mapFigmaAlignToCSS(alignment) || 'flex-start'
mapFigmaAlignToCSS(alignment) ==
    CASE alignment = "undefined"     -> "flex-start"
      [] alignment = "MIN"           -> "flex-start"
      [] alignment = "MAX"           -> "flex-end"
      [] alignment = "CENTER"        -> "center"
      [] alignment = "BASELINE"      -> "baseline"
      [] alignment = "STRETCH"       -> "stretch"
      [] alignment = "SPACE_BETWEEN" -> "space-between"
      [] OTHER                       -> "flex-start"

\* if (node.layoutMode && node.layoutMode !== 'NONE') push the flex container
FlexStyles(node) ==
    IF HasAutoLayout(node)
    THEN << Decl("display", "flex", <<>>),
            Decl("flex-direction",
                 IF node.layoutMode = "HORIZONTAL" THEN "row" ELSE "column", <<>>),
            Px("gap", node.itemSpacing),
            Decl("padding", "px", << node.paddingTop, node.paddingRight,
                                     node.paddingBottom, node.paddingLeft >>),
            Decl("align-items", mapFigmaAlignToCSS(node.counterAxisAlignItems), <<>>),
            Decl("justify-content", mapFigmaAlignToCSS(node.primaryAxisAlignItems), <<>>) >>
    ELSE <<>>

\* node.children.find(child => child.type === 'TEXT'): index of the first, or 0
FirstTextChild(node) ==
    LET hits == {i \in DOMAIN node.children : node.children[i].type = "TEXT"}
    IN  IF hits = {} THEN 0 ELSE CHOOSE i \in hits : \A j \in hits : i <= j

\* flexbox for the containers of an aligned text child
TextContainerStyles(node) ==
    IF node.type # "TEXT" /\ Len(node.children) > 0 /\ ~HasAbsoluteChildren(node)
    THEN LET t == FirstTextChild(node) IN
         IF t # 0 /\ node.children[t].style.defined /\ ~HasAutoLayout(node)
         THEN LET st == node.children[t].style IN
              IF st.textAlignHorizontal # "undefined" \/ st.textAlignVertical # "undefined"
              THEN << Decl("display", "flex", <<>>),
                      Decl("align-items",
                           CASE st.textAlignVertical = "CENTER" -> "center"
                             [] st.textAlignVertical = "BOTTOM" -> "flex-end"
                             [] st.textAlignVertical = "TOP"    -> "flex-start"
                             [] OTHER                           -> "center", <<>>),
                      Decl("justify-content",
                           CASE st.textAlignHorizontal = "CENTER" -> "center"
                             [] st.textAlignHorizontal = "RIGHT"  -> "flex-end"
                             [] st.textAlignHorizontal = "LEFT"   -> "flex-start"
                             [] OTHER                             -> "center", <<>>) >>
              ELSE <<>>
         ELSE <<>>
    ELSE <<>>

\* a CSS value with parts: a colour, a gradient, a shadow; kind "" is ''
CssValue(kind, nums, args) == [kind |-> kind, nums |-> nums, args |-> args]

EmptyString == CssValue("", <<>>, <<>>)

\* Math.round(x) of x = n / d, n >= 0
RoundDiv(n, d) == (2 * n + d) \div (2 * d)

\* rgba with the override tested for truth, which takes 0 for no override
rgbaOverrideIfTruthy(color, opacityOverride) ==
    IF ~color.defined THEN CssValue("transparent", <<>>, <<>>)
    ELSE CssValue("rgba",
                  << RoundDiv(color.r * 255, 1000), RoundDiv(color.g * 255, 1000),
                     RoundDiv(color.b * 255, 1000),
                     IF opacityOverride # <<>> /\ opacityOverride # <<0>>
                     THEN opacityOverride[1]
                     ELSE IF color.a # <<>> THEN color.a[1] ELSE 1000 >>,
                  <<>>)

\* rgba(color, opacityOverride): 'transparent' without a colour, else
\* `rgba(${round(r*255)}, ${round(g*255)}, ${round(b*255)}, ${a})` with a the
\* override, else color.a, else 1
rgba(color, opacityOverride) ==
    IF ~color.defined THEN CssValue("transparent", <<>>, <<>>)
    ELSE CssValue("rgba",
                  << RoundDiv(color.r * 255, 1000), RoundDiv(color.g * 255, 1000),
                     RoundDiv(color.b * 255, 1000),
                     IF opacityOverride # <<>> THEN opacityOverride[1]
                     ELSE IF color.a # <<>> THEN color.a[1] ELSE 1000 >>,
                  <<>>)

\* (Math.atan2(dy, dx) * 180) / Math.PI for the directions explored: the
\* axes, the diagonals, and atan2(0, 0) = 0
Atan2Degrees(dy, dx) ==
    CASE dy = 0 /\ dx >= 0 -> 0
      [] dy = 0 /\ dx < 0  -> 180
      [] dx = 0 /\ dy > 0  -> 90
      [] dx = 0 /\ dy < 0  -> -90
      [] dy = dx /\ dx > 0 -> 45
      [] dy = dx /\ dx < 0 -> -135
      [] dy = -dx /\ dx < 0 -> 135
      [] OTHER             -> -45

\* parseGradient reads end.y of handles[1]: with fewer than two handles it is
\* a property of undefined and a TypeError is thrown
parseGradientThrows(paint) ==
    /\ paint.gradientStops.defined
    /\ paint.gradientHandlePositions.defined
    /\ Len(paint.gradientHandlePositions.items) < 2

\* parseGradient with the cartesian angle left as it is
parseGradientCartesian(paint) ==
    IF ~paint.gradientStops.defined \/ ~paint.gradientHandlePositions.defined
    THEN EmptyString
    ELSE LET handles  == paint.gradientHandlePositions.items
             start    == handles[1]
             end      == handles[2]
             dy       == end.y - start.y
             dx       == end.x - start.x
             cssAngle == Atan2Degrees(dy, dx)
             stops    == paint.gradientStops.items
         IN  CssValue("linear-gradient", <<cssAngle>>,
                      [i \in DOMAIN stops |->
                          CssValue("stop", <<RoundDiv(stops[i].position * 100, 1000)>>,
                                   <<rgba(stops[i].color, <<>>)>>)])

\* parseGradient(paint), where it returns
parseGradient(paint) ==
    IF ~paint.gradientStops.defined \/ ~paint.gradientHandlePositions.defined
    THEN EmptyString
    ELSE LET handles  == paint.gradientHandlePositions.items
             start    == handles[1]
             end      == handles[2]
             dy       == end.y - start.y
             dx       == end.x - start.x
             cssAngle == Atan2Degrees(dy, dx) + 90
             stops    == paint.gradientStops.items
         IN  CssValue("linear-gradient", <<cssAngle>>,
                      [i \in DOMAIN stops |->
                          CssValue("stop", <<RoundDiv(stops[i].position * 100, 1000)>>,
                                   <<rgba(stops[i].color, <<>>)>>)])

IsVisiblePaint(f) == f.visible # FALSE

\* 'linear-gradient(135deg, #f5f5f5 0%, #e0e0e0 100%)'
ImagePlaceholder ==
    CssValue("linear-gradient", <<135>>,
             << CssValue("stop", <<0>>, <<CssValue("#f5f5f5", <<>>, <<>>)>>),
                CssValue("stop", <<100>>, <<CssValue("#e0e0e0", <<>>, <<>>)>>) >>)

TopFillFirst(validFills) == validFills[1]

\* validFills[validFills.length - 1]
TopFill(validFills) == validFills[Len(validFills)]

\* parseFills with the image branch building a url from the asset reference
parseFillsImageUrl(fills) ==
    LET validFills == SelectSeq(fills, IsVisiblePaint) IN
    IF Len(validFills) = 0 THEN EmptyString
    ELSE LET fill == TopFill(validFills) IN
         IF fill.type = "SOLID" THEN rgba(fill.color, fill.opacity)
         ELSE IF fill.type = "GRADIENT_LINEAR" THEN parseGradient(fill)
         ELSE IF fill.type = "IMAGE"
         THEN CssValue("url", <<>>, <<CssValue(fill.imageRef, <<>>, <<>>)>>)
         ELSE EmptyString

\* parseFills(fills), where it returns
parseFills(fills) ==
    LET validFills == SelectSeq(fills, IsVisiblePaint) IN
    IF Len(validFills) = 0 THEN EmptyString
    ELSE LET fill == TopFill(validFills) IN
         IF fill.type = "SOLID" THEN rgba(fill.color, fill.opacity)
         ELSE IF fill.type = "GRADIENT_LINEAR" THEN parseGradient(fill)
         ELSE IF fill.type = "IMAGE" THEN ImagePlaceholder
         ELSE EmptyString

\* parseFills(fills) throws: the fill it selects is a linear gradient that
\* makes parseGradient throw
parseFillsThrows(fills) ==
    LET validFills == SelectSeq(fills, IsVisiblePaint) IN
    /\ Len(validFills) > 0
    /\ TopFill(validFills).type = "GRADIENT_LINEAR"
    /\ parseGradientThrows(TopFill(validFills))

\* a declaration `prop: value;`
ValueDecl(prop, v) == DeclArgs(prop, v.kind, v.nums, v.args)

\* Backgrounds & Fills
BackgroundStyles(node) ==
    IF node.fills.defined /\ node.type # "TEXT"
    THEN LET bg == parseFills(node.fills.items)
         IN  IF bg.kind # "" THEN <<ValueDecl("background", bg)>> ELSE <<>>
    ELSE IF node.backgroundColor.defined /\ node.type # "TEXT"
    THEN <<ValueDecl("background-color", rgba(node.backgroundColor, <<>>))>>
    ELSE <<>>

\* node.strokes.find(p => p.visible !== false)
StrokePaint(visibleStrokes) == visibleStrokes[1]

\* Borders (Strokes)
BorderStyles(node) ==
    IF Len(node.strokes) > 0 /\ node.strokeWeight # 0
    THEN LET visibleStrokes == SelectSeq(node.strokes, IsVisiblePaint) IN
         IF Len(visibleStrokes) > 0 /\ StrokePaint(visibleStrokes).type = "SOLID"
         THEN LET strokePaint == StrokePaint(visibleStrokes)
              IN  << DeclArgs("border", "solid", <<node.strokeWeight>>,
                              <<rgba(strokePaint.color, strokePaint.opacity)>>) >>
         ELSE <<>>
    ELSE <<>>

\* RadiusStyles with the per-corner radii tested first
RadiusStylesCornersFirst(node) ==
    IF node.rectangleCornerRadii.defined
    THEN <<Decl("border-radius", "px", node.rectangleCornerRadii.items)>>
    ELSE IF node.cornerRadius # 0 THEN <<Px("border-radius", node.cornerRadius)>>
    ELSE <<>>

\* Border Radius
RadiusStyles(node) ==
    IF node.cornerRadius # 0 THEN <<Px("border-radius", node.cornerRadius)>>
    ELSE IF node.rectangleCornerRadii.defined
    THEN <<Decl("border-radius", "px", node.rectangleCornerRadii.items)>>
    ELSE <<>>

\* IsShadow without the test of visible
IsShadowOfAnyVisibility(e) == e.type \in {"DROP_SHADOW", "INNER_SHADOW"}

\* e.visible && (e.type === 'DROP_SHADOW' || e.type === 'INNER_SHADOW')
IsShadow(e) == e.visible /\ e.type \in {"DROP_SHADOW", "INNER_SHADOW"}

\* `${inset} ${x}px ${y}px ${blur}px ${spread}px ${color}`
ShadowValue(e) ==
    CssValue(IF e.type = "INNER_SHADOW" THEN "inset" ELSE "",
             <<e.offset.x, e.offset.y, e.radius, e.spread>>,
             <<rgba(e.color, <<>>)>>)

\* parseEffects(effects): the shadows, to be joined with ', '
parseEffects(effects) ==
    LET shadows == SelectSeq(effects, IsShadow)
    IN  [i \in DOMAIN shadows |-> ShadowValue(shadows[i])]

\* Effects (Shadows): the empty join is '' and pushes nothing
ShadowStyles(node) ==
    LET shadow == parseEffects(node.effects)
    IN  IF shadow # <<>> THEN <<DeclArgs("box-shadow", "shadows", <<>>, shadow)>>
        ELSE <<>>

\* alignMap[style.textAlignHorizontal]
TextAlignOf(align) ==
    CASE align = "LEFT" -> "left" [] align = "RIGHT" -> "right"
      [] align = "CENTER" -> "center" [] align = "JUSTIFIED" -> "justify"
      [] OTHER -> "undefined"

\* parseTypography(style)
parseTypography(style) ==
    << Decl("font-family", style.fontFamily, <<>>),
       Px("font-size", style.fontSize),
       Decl("font-weight", "", <<style.fontWeight>>) >>
    \o (IF style.lineHeightPx # 0 THEN <<Px("line-height", style.lineHeightPx)>> ELSE <<>>)
    \o (IF style.letterSpacing # 0 THEN <<Px("letter-spacing", style.letterSpacing)>> ELSE <<>>)
    \o (IF style.textAlignHorizontal # "undefined"
        THEN <<Decl("text-align", TextAlignOf(style.textAlignHorizontal), <<>>)>>
        ELSE <<>>)

\* TypographyStyles with the colour of the first fill that is visible and solid
TypographyStylesFirstSolid(node) ==
    IF node.type = "TEXT" /\ node.style.defined
    THEN parseTypography(node.style)
         \o (IF node.fills.defined
             THEN LET IsVisibleSolid(f) == IsVisiblePaint(f) /\ f.type = "SOLID"
                      valid == SelectSeq(node.fills.items, IsVisibleSolid) IN
                  IF Len(valid) > 0
                  THEN <<ValueDecl("color", rgba(valid[1].color, valid[1].opacity))>>
                  ELSE <<>>
             ELSE <<>>)
    ELSE <<>>

\* Typography, and the text colour from the first visible fill
TypographyStyles(node) ==
    IF node.type = "TEXT" /\ node.style.defined
    THEN parseTypography(node.style)
         \o (IF node.fills.defined
             THEN LET valid == SelectSeq(node.fills.items, IsVisiblePaint) IN
                  IF Len(valid) > 0 /\ valid[1].type = "SOLID"
                  THEN <<ValueDecl("color", rgba(valid[1].color, valid[1].opacity))>>
                  ELSE <<>>
             ELSE <<>>)
    ELSE <<>>

\* generateStyles(node, ...) throws: its parseFills call does
generateStylesThrows(node) ==
    node.fills.defined /\ node.type # "TEXT" /\ parseFillsThrows(node.fills.items)

\* styles.join(' ') of the sections in source order, where it returns
generateStyles(node, parentNode, isRoot) ==
    DimensionStyles(node) \o PositionStyles(node, parentNode, isRoot)
        \o FlexStyles(node) \o TextContainerStyles(node)
        \o BackgroundStyles(node) \o BorderStyles(node) \o RadiusStyles(node)
        \o ShadowStyles(node) \o TypographyStyles(node)

----------------------------------------------------------------------------
(* The node tree *)

\* node n as the code sees it: its children are node objects
NodeOf(n) ==
    [tree[n] EXCEPT !.children =
        [i \in DOMAIN tree[n].children |-> tree[tree[n].children[i]]]]

ArtboardTypes == {"FRAME", "SECTION", "COMPONENT"}

\* IsArtboardType with SECTION and COMPONENT left out
IsArtboardTypeFrameOnly(c) == tree[c].type = "FRAME"

\* child.type === 'FRAME' || child.type === 'SECTION' || child.type === 'COMPONENT'
IsArtboardType(c) == tree[c].type \in ArtboardTypes

\* node.children.filter(child => ...) of a CANVAS
CanvasArtboards(n) == SelectSeq(tree[n].children, IsArtboardType)

\* findAllArtboards(node): a CANVAS gives its container children and is not
\* searched further; a DOCUMENT and any other node give what their children give
RECURSIVE findAllArtboards(_)
findAllArtboards(n) ==
    IF tree[n].type = "CANVAS" /\ Len(tree[n].children) > 0
    THEN CanvasArtboards(n)
    ELSE IF tree[n].type = "DOCUMENT" /\ Len(tree[n].children) > 0
    THEN Flatten([i \in DOMAIN tree[n].children |->
                     findAllArtboards(tree[n].children[i])])
    ELSE Flatten([i \in DOMAIN tree[n].children |->
                     findAllArtboards(tree[n].children[i])])

----------------------------------------------------------------------------
(* convert and processNode *)

\* the HttpException slot when nothing was thrown
NoException == [thrown |-> FALSE, message |-> "", status |-> 0]

\* getFile has not been called
NoFetch ==
    /\ apiPc = "idle"
    /\ attempt = 0
    /\ requests = 0
    /\ delays = <<>>
    /\ responses = <<>>
    /\ exception = NoException

NoResult == [defined |-> FALSE, html |-> <<>>, css |-> <<>>]

NoError == [kind |-> "none", at |-> "none"]

\* what reading a property of null throws, and the function that read it
TypeErrorAt(fn) == [kind |-> "TypeError", at |-> fn]

NewContext == [cssRules |-> <<>>, idCounter |-> 0]

\* AllocateContext with the context kept by the service and used again
AllocateContextKept(old) == old

\* const context = { cssRules: [], idCounter: 0 }: a new object in every
\* call, whatever context an earlier call left behind
AllocateContext(old) == NewContext

\* IsSkipped with the visibility test left out
IsSkippedNever(n) == FALSE

\* if (node.visible === false) return ''
IsSkipped(n) == tree[n].visible = FALSE

\* ArtboardIsRoot as it was when only the first artboard was the root
ArtboardIsRootFirstOnly(i) == i = 1

\* nodesToProcess.map(artboard => processNode(artboard, artboard, context, true))
ArtboardIsRoot(i) == TRUE

\* PushRule with the rule put in front (unshift)
PushRuleInFront(rules, rule) == <<rule>> \o rules

\* context.cssRules.push(rule)
PushRule(rules, rule) == Append(rules, rule)

\* node.type === 'TEXT' && node.characters
HasTextContent(n) == tree[n].type = "TEXT" /\ tree[n].characters # <<>>

\* WrapArtboards with the wrapper also around a single artboard
WrapArtboardsAlways(count, html) == Div(ArtboardsContainerClass, html)

\* nodesToProcess.length > 1 ? `<div class="artboards-container">...</div>` : ...
WrapArtboards(count, html) ==
    IF count > 1 THEN Div(ArtboardsContainerClass, html) ELSE html

Frame(n, parent, isRoot) ==
    [node |-> n, parentNode |-> parent, isRoot |-> isRoot, next |-> 1,
     content |-> IF HasTextContent(n)
                 THEN <<Text(EscapeText(tree[n].characters))>> ELSE <<>>]

\* the frame has no child left to map over (a text node maps over none)
FrameDone(f) == HasTextContent(f.node) \/ f.next > Len(tree[f.node].children)

\* Convert with a null root taken for a document without nodes
ConvertNullAsEmpty ==
    /\ pc = "idle"
    /\ nodesToProcess' =
          IF rootNode = Null THEN <<>>
          ELSE IF Len(findAllArtboards(rootNode)) > 0
               THEN findAllArtboards(rootNode) ELSE <<rootNode>>
    /\ context' = AllocateContext(context)
    /\ artboardIndex' = 1
    /\ pc' = "walking"
    /\ UNCHANGED apiVars
    /\ UNCHANGED <<rootNode, tree, artboardsHtml, stack, result, error, emitted, log>>

\* convert(rootNode) up to the start of the map over nodesToProcess.  With a
\* null root the first statement, findAllArtboards(rootNode), reads node.type
\* of null and throws; nothing catches it.
Convert ==
    /\ pc = "idle"
    /\ IF rootNode = Null
       THEN /\ pc' = "failed"
            /\ error' = TypeErrorAt("findAllArtboards")
            /\ UNCHANGED <<nodesToProcess, context, artboardIndex>>
       ELSE /\ LET artboards == findAllArtboards(rootNode)
               IN  nodesToProcess' =
                       IF Len(artboards) > 0 THEN artboards ELSE <<rootNode>>
            /\ context' = AllocateContext(context)
            /\ artboardIndex' = 1
            /\ pc' = "walking"
            /\ UNCHANGED error
    /\ UNCHANGED apiVars
    /\ UNCHANGED <<rootNode, tree, artboardsHtml, stack, result, emitted, log>>

\* A call of processNode, up to its first recursive call: from the map over
\* nodesToProcess (empty stack) or from the map over the children of the
\* node on top of the stack.  An invisible node returns '' at once.  An
\* exception thrown by generateStyles leaves processNode and convert: nothing
\* catches it.
CallProcessNode ==
    /\ pc = "walking"
    /\ IF stack = <<>>
       THEN artboardIndex <= Len(nodesToProcess)
       ELSE ~FrameDone(stack[Len(stack)])
    /\ LET top    == stack[Len(stack)]
           n      == IF stack = <<>> THEN nodesToProcess[artboardIndex]
                     ELSE tree[top.node].children[top.next]
           parent == IF stack = <<>> THEN n ELSE top.node
           isRoot == IF stack = <<>> THEN ArtboardIsRoot(artboardIndex) ELSE FALSE
       IN  IF IsSkipped(n)
           THEN /\ IF stack = <<>>
                   THEN artboardIndex' = artboardIndex + 1 /\ UNCHANGED stack
                   ELSE /\ stack' = [stack EXCEPT ![Len(stack)].next = @ + 1]
                        /\ UNCHANGED artboardIndex
                /\ UNCHANGED <<context, emitted, pc, error>>
           ELSE IF generateStylesThrows(NodeOf(n))
           THEN /\ pc' = "failed"
                /\ error' = TypeErrorAt("parseGradient")
                /\ UNCHANGED <<context, emitted, stack, artboardIndex>>
           ELSE /\ context' = [context EXCEPT !.cssRules =
                       PushRule(@, Rule(ClassName(tree[n].id),
                                        generateStyles(NodeOf(n), NodeOf(parent), isRoot)))]
                /\ emitted' = Append(emitted, n)
                /\ stack' = Append(stack, Frame(n, parent, isRoot))
                /\ UNCHANGED <<artboardIndex, pc, error>>
    /\ UNCHANGED apiVars
    /\ UNCHANGED <<rootNode, tree, nodesToProcess, artboardsHtml, result, log>>

\* The return of the processNode call on top of the stack: its fragment is
\* joined to the caller's content, or to artboardsHtml for an artboard.
ReturnProcessNode ==
    /\ pc = "walking"
    /\ stack # <<>>
    /\ FrameDone(stack[Len(stack)])
    /\ LET top      == stack[Len(stack)]
           fragment == Div(ClassName(tree[top.node].id), top.content)
           rest     == SubSeq(stack, 1, Len(stack) - 1)
       IN  IF rest = <<>>
           THEN /\ artboardsHtml' = artboardsHtml \o fragment
                /\ artboardIndex' = artboardIndex + 1
                /\ stack' = rest
           ELSE /\ stack' = [rest EXCEPT ![Len(rest)].content = @ \o fragment,
                                         ![Len(rest)].next = @ + 1]
                /\ UNCHANGED <<artboardsHtml, artboardIndex>>
    /\ UNCHANGED apiVars
    /\ UNCHANGED <<rootNode, tree, pc, nodesToProcess, context, result, error, emitted, log>>

\* the rest of convert once the map has ended: the wrapper, baseCss, the result
Finish ==
    /\ pc = "walking"
    /\ stack = <<>>
    /\ artboardIndex > Len(nodesToProcess)
    /\ result' = [defined |-> TRUE,
                  html |-> WrapArtboards(Len(nodesToProcess), artboardsHtml),
                  css |-> BaseCss \o context.cssRules]
    /\ pc' = "done"
    /\ UNCHANGED apiVars
    /\ UNCHANGED <<rootNode, tree, nodesToProcess, context, artboardIndex,
                   artboardsHtml, stack, error, emitted, log>>

Next == Convert \/ CallProcessNode \/ ReturnProcessNode \/ Finish

----------------------------------------------------------------------------
(* The explored inputs *)

\* ancestors-or-self of node k under the parent vector pv (0 is "no parent")
RECURSIVE PathToRoot(_, _)
PathToRoot(pv, k) == IF k = 0 THEN {} ELSE {k} \cup PathToRoot(pv, pv[k])

\* the parent vectors of the ordered trees of n nodes numbered in document order
RECURSIVE ParentVectors(_)
ParentVectors(n) ==
    IF n = 1 THEN {<<0>>}
    ELSE {Append(pv, a) : <<pv, a>> \in
            {<<q, b>> \in ParentVectors(n - 1) \X (1..(n - 1)) : b \in PathToRoot(q, n - 1)}}

\* the children of node k, in document order
RECURSIVE ChildrenFrom(_, _, _)
ChildrenFrom(pv, k, j) ==
    IF j > Len(pv) THEN <<>>
    ELSE (IF pv[j] = k THEN <<j>> ELSE <<>>) \o ChildrenFrom(pv, k, j + 1)

DigitOf(i) == CASE i = 1 -> "1" [] i = 2 -> "2" [] i = 3 -> "3" [] i = 4 -> "4"
                [] i = 5 -> "5" [] i = 6 -> "6" [] i = 7 -> "7" [] OTHER -> "8"

\* pairwise distinct ids "1:i", as Figma gives them
PlainId(i) == <<"1", ":", DigitOf(i)>>

\* pairwise distinct ids "1:1", "1-1", "1:2", "1-2", ...
CloseId(i) == <<"1", IF i % 2 = 1 THEN ":" ELSE "-", DigitOf((i + 1) \div 2)>>

StructureTypes == {"DOCUMENT", "CANVAS", "FRAME", "TEXT"}

Profiles == {"plain", "auto"}

\* the fields a profile gives node i besides its type, visibility and children
ProfileNode(profile, i, ntype) ==
    CASE profile = "plain" ->
           [FigmaNode(PlainId(i), ntype) EXCEPT
              !.absoluteBoundingBox = Box(10 * i, 5 * i),
              !.characters = IF ntype = "TEXT" THEN <<"a", "&", "<">> ELSE <<>>]
      [] OTHER ->
           [FigmaNode(CloseId(i), ntype) EXCEPT
              !.absoluteBoundingBox = Box(10 * i, 5 * i),
              !.layoutMode = "HORIZONTAL",
              !.layoutPositioning = "ABSOLUTE"]

\* the tree of shape pv with the given typing, visibility and profile
StructureTree(pv, types, vis, profile) ==
    [i \in 1..Len(pv) |->
        [ProfileNode(profile, i, types[i]) EXCEPT
           !.visible = vis[i], !.children = ChildrenFrom(pv, i, 1)]]

Idle ==
    /\ pc = "idle"
    /\ nodesToProcess = <<>>
    /\ context = NewContext
    /\ artboardIndex = 0
    /\ artboardsHtml = <<>>
    /\ stack = <<>>
    /\ result = NoResult
    /\ error = NoError
    /\ emitted = <<>>
    /\ log = <<>>
    /\ NoFetch

\* every tree of at most MaxNodes nodes, every typing and visibility of its nodes
InitStructure ==
    /\ rootNode = 1
    /\ \E n \in 1..MaxNodes : \E pv \in ParentVectors(n) :
       \E types \in [1..n -> StructureTypes] : \E vis \in [1..n -> BOOLEAN] :
       \E profile \in Profiles :
          tree = StructureTree(pv, types, vis, profile)
    /\ Idle

AllTypes == {"DOCUMENT", "CANVAS", "FRAME", "SECTION", "COMPONENT", "GROUP", "TEXT"}

\* every tree of at most MaxNodes visible nodes, typed with every node type
InitTypes ==
    /\ rootNode = 1
    /\ \E n \in 1..MaxNodes : \E pv \in ParentVectors(n) :
       \E types \in [1..n -> AllTypes] :
          tree = StructureTree(pv, types, [i \in 1..n |-> TRUE], "plain")
    /\ Idle

LayoutModes == {"undefined", "NONE", "HORIZONTAL", "VERTICAL"}

LayoutPositionings == {"undefined", "AUTO", "ABSOLUTE"}

\* a child of the middle node of a layout tree
LayoutChild(i, mode, positioning) ==
    [FigmaNode(PlainId(i), "FRAME") EXCEPT
       !.absoluteBoundingBox = Box(60, 80),
       !.layoutMode = mode, !.layoutPositioning = positioning]

\* the layout mode and positioning of a grandchild, numbered
LayoutKinds ==
    << <<"NONE", "AUTO">>, <<"NONE", "ABSOLUTE">>,
       <<"HORIZONTAL", "AUTO">>, <<"HORIZONTAL", "ABSOLUTE">> >>

\* the rows of at most c grandchildren, one per choice of kinds: the code
\* looks at the grandchildren with `some`, where their order plays no part
LayoutRows(c) ==
    {ks \in [1..c -> DOMAIN LayoutKinds] : \A i \in 1..(c - 1) : ks[i] <= ks[i + 1]}

\* a FRAME root, its one child and that child's children (at most
\* MaxLayoutChildren), with every layout mode, positioning and bounding box
InitLayout ==
    /\ rootNode = 1
    /\ \E c \in 0..MaxLayoutChildren :
       \E rootMode \in LayoutModes, mode \in LayoutModes :
       \E positioning \in LayoutPositionings :
       \E rootBox \in {NoBox, Box(20, 30)}, box \in {NoBox, Box(50, 75)} :
       \E kids \in {[i \in 1..c |-> LayoutKinds[ks[i]]] : ks \in LayoutRows(c)} :
          tree = << [FigmaNode(PlainId(1), "FRAME") EXCEPT
                       !.children = <<2>>, !.absoluteBoundingBox = rootBox,
                       !.layoutMode = rootMode],
                    [FigmaNode(PlainId(2), "FRAME") EXCEPT
                       !.children = [i \in 1..c |-> i + 2],
                       !.absoluteBoundingBox = box,
                       !.layoutMode = mode, !.layoutPositioning = positioning] >>
                 \o [i \in 1..c |-> LayoutChild(i + 2, kids[i][1], kids[i][2])]
    /\ Idle

\* two stops, red at 0 and blue at 1
TwoStops ==
    Items(<< ColorStop(0, Color(1000, 0, 0, <<>>)),
             ColorStop(1000, Color(0, 0, 1000, <<1000>>)) >>)

\* the paints explored in fills and strokes: solid (visible, invisible, with
\* opacity, without colour), linear gradient (complete, without stops, with
\* one handle only), image (two references), and two types the code has no
\* branch for
PaintSamples ==
    { [Paint("SOLID") EXCEPT !.color = Color(1000, 0, 0, <<>>)],
      [Paint("SOLID") EXCEPT !.color = Color(0, 500, 1000, <<500>>), !.opacity = <<250>>],
      [Paint("SOLID") EXCEPT !.color = Color(0, 1000, 0, <<>>), !.visible = FALSE],
      Paint("SOLID"),
      [Paint("GRADIENT_LINEAR") EXCEPT
          !.gradientHandlePositions = Items(<<Vector(0, 0), Vector(1, 0), Vector(0, 1)>>),
          !.gradientStops = TwoStops],
      [Paint("GRADIENT_LINEAR") EXCEPT
          !.gradientHandlePositions = Items(<<Vector(0, 0), Vector(1, 0)>>)],
      [Paint("GRADIENT_LINEAR") EXCEPT
          !.gradientHandlePositions = Items(<<Vector(0, 0)>>),
          !.gradientStops = TwoStops],
      [Paint("IMAGE") EXCEPT !.imageRef = "a"],
      [Paint("IMAGE") EXCEPT !.imageRef = "b"],
      Paint("GRADIENT_RADIAL"),
      Paint("VIDEO") }

\* the sequences over S of length at most n
SeqsUpTo(S, n) == UNION {[1..k -> S] : k \in 0..n}

\* a TypeStyle with the given alignments
TextStyle(horizontal, vertical) ==
    [NoStyle EXCEPT !.defined = TRUE, !.fontFamily = "Inter", !.fontSize = 16,
                    !.fontWeight = 400, !.lineHeightPx = 24,
                    !.textAlignHorizontal = horizontal, !.textAlignVertical = vertical]

\* a lone FRAME or TEXT root with every fills list of at most MaxPaints
\* paints, or none, with and without a backgroundColor, the text with and
\* without a style
InitFills ==
    /\ rootNode = 1
    /\ \E ntype \in {"FRAME", "TEXT"} :
       \E fills \in {Absent} \cup {Items(xs) : xs \in SeqsUpTo(PaintSamples, MaxPaints)} :
       \E bg \in {NoColor, Color(500, 500, 500, <<>>)} :
       \E style \in IF ntype = "TEXT" THEN {NoStyle, TextStyle("LEFT", "TOP")}
                     ELSE {NoStyle} :
          tree = << [FigmaNode(PlainId(1), ntype) EXCEPT
                       !.fills = fills, !.backgroundColor = bg, !.style = style] >>
    /\ Idle

\* a lone FRAME root with every strokes list of at most MaxPaints paints,
\* with and without a strokeWeight
InitStrokes ==
    /\ rootNode = 1
    /\ \E strokes \in SeqsUpTo(PaintSamples, MaxPaints), strokeWeight \in {0, 2} :
          tree = << [FigmaNode(PlainId(1), "FRAME") EXCEPT
                       !.strokes = strokes, !.strokeWeight = strokeWeight] >>
    /\ Idle

\* the corners of the unit square, where gradient handles are put
HandlePoints == {Vector(hx, hy) : hx \in {0, 1}, hy \in {0, 1}}

\* a lone FRAME root filled with a linear gradient from any corner to any
\* corner, with or without a third handle
InitGradient ==
    /\ rootNode = 1
    /\ \E start \in HandlePoints, end \in HandlePoints :
       \E rest \in {<<>>, <<Vector(0, 1)>>} :
          tree = << [FigmaNode(PlainId(1), "FRAME") EXCEPT
                       !.fills = Items(<< [Paint("GRADIENT_LINEAR") EXCEPT
                           !.gradientHandlePositions = Items(<<start, end>> \o rest),
                           !.gradientStops = TwoStops] >>)] >>
    /\ Idle

\* the effects explored: a drop shadow and an inner shadow, a drop shadow
\* that is not visible, one with nothing but its type and visibility, and
\* the two blurs
EffectSamples ==
    { [Effect("DROP_SHADOW") EXCEPT !.visible = TRUE, !.radius = 8,
          !.offset = Vector(0, 4), !.color = Color(0, 0, 0, <<250>>)],
      [Effect("INNER_SHADOW") EXCEPT !.visible = TRUE, !.radius = 2, !.spread = 1,
          !.offset = Vector(1, 1), !.color = Color(1000, 0, 0, <<>>)],
      [Effect("DROP_SHADOW") EXCEPT !.radius = 3, !.offset = Vector(2, 2),
          !.color = Color(0, 1000, 0, <<>>)],
      [Effect("DROP_SHADOW") EXCEPT !.visible = TRUE],
      [Effect("LAYER_BLUR") EXCEPT !.visible = TRUE, !.radius = 4],
      [Effect("BACKGROUND_BLUR") EXCEPT !.visible = TRUE, !.radius = 4] }

\* a lone FRAME or TEXT root with every effects list of at most MaxEffects
\* effects
InitEffects ==
    /\ rootNode = 1
    /\ \E ntype \in {"FRAME", "TEXT"}, effects \in SeqsUpTo(EffectSamples, MaxEffects) :
          tree = << [FigmaNode(PlainId(1), ntype) EXCEPT !.effects = effects] >>
    /\ Idle

\* the characters text is made of: the four the code replaces, a letter,
\* and the semicolon that ends an entity
TextChars == {"&", "<", ">", "\n", "a", ";"}

\* a lone TEXT root with every text of at most MaxTextLen characters
InitCharacters ==
    /\ rootNode = 1
    /\ \E characters \in SeqsUpTo(TextChars, MaxTextLen) :
          tree = << [FigmaNode(PlainId(1), "TEXT") EXCEPT !.characters = characters] >>
    /\ Idle

\* the per-corner radii explored: none, four different, four equal, four zero
CornerRadiiSamples ==
    {Absent, Items(<<8, 16, 24, 32>>), Items(<<8, 8, 8, 8>>), Items(<<0, 0, 0, 0>>)}

\* a FRAME root and its FRAME child, each with or without a uniform radius
\* and per-corner radii
InitRadius ==
    /\ rootNode = 1
    /\ \E rootRadius \in {0, 8}, rootRadii \in CornerRadiiSamples :
       \E radius \in {0, 4, 8}, radii \in CornerRadiiSamples :
          tree = << [FigmaNode(PlainId(1), "FRAME") EXCEPT
                       !.children = <<2>>,
                       !.cornerRadius = rootRadius, !.rectangleCornerRadii = rootRadii],
                    [FigmaNode(PlainId(2), "FRAME") EXCEPT
                       !.cornerRadius = radius, !.rectangleCornerRadii = radii] >>
    /\ Idle

\* the values of counterAxisAlignItems and primaryAxisAlignItems explored:
\* absent, the six the code maps, and one it does not know
AlignValues == {"undefined", "MIN", "MAX", "CENTER", "BASELINE", "STRETCH",
                "SPACE_BETWEEN", "SPACE_AROUND"}

\* a FRAME root and its one child, the child with every layout mode, both
\* alignments, with and without spacing and padding, forced-absolute or not,
\* under a root with and without auto layout
InitFlex ==
    /\ rootNode = 1
    /\ \E rootMode \in {"undefined", "VERTICAL"}, mode \in LayoutModes :
       \E positioning \in {"AUTO", "ABSOLUTE"} :
       \E counter \in AlignValues, primary \in AlignValues :
       \E spaced \in BOOLEAN :
          tree = << [FigmaNode(PlainId(1), "FRAME") EXCEPT
                       !.children = <<2>>, !.layoutMode = rootMode],
                    [FigmaNode(PlainId(2), "FRAME") EXCEPT
                       !.layoutMode = mode, !.layoutPositioning = positioning,
                       !.counterAxisAlignItems = counter,
                       !.primaryAxisAlignItems = primary,
                       !.itemSpacing = IF spaced THEN 8 ELSE 0,
                       !.paddingTop = IF spaced THEN 1 ELSE 0,
                       !.paddingRight = IF spaced THEN 2 ELSE 0,
                       !.paddingBottom = IF spaced THEN 3 ELSE 0,
                       !.paddingLeft = IF spaced THEN 4 ELSE 0] >>
    /\ Idle

\* the styles of a text child: none, or every pair of alignments
TextStyles ==
    {NoStyle} \cup {TextStyle(h, v) : h \in {"undefined", "LEFT", "CENTER", "RIGHT"},
                                      v \in {"undefined", "TOP", "CENTER", "BOTTOM"}}

\* a FRAME root with a TEXT child, alone or followed by a FRAME: the root
\* with and without auto layout, the text with every style, with and without
\* layout fields of its own
InitText ==
    /\ rootNode = 1
    /\ \E rootMode \in {"undefined", "NONE", "HORIZONTAL"} :
       \E style \in TextStyles :
       \E mode \in {"undefined", "HORIZONTAL"}, positioning \in {"undefined", "ABSOLUTE"} :
       \E sibling \in {"none", "undefined", "HORIZONTAL"} :
          tree = << [FigmaNode(PlainId(1), "FRAME") EXCEPT
                       !.children = IF sibling = "none" THEN <<2>> ELSE <<2, 3>>,
                       !.layoutMode = rootMode],
                    [FigmaNode(PlainId(2), "TEXT") EXCEPT
                       !.characters = <<"H", "i">>, !.style = style,
                       !.layoutMode = mode, !.layoutPositioning = positioning] >>
                 \o (IF sibling = "none" THEN <<>>
                     ELSE << [FigmaNode(PlainId(3), "FRAME") EXCEPT
                                !.layoutMode = sibling] >>)
    /\ Idle

\* convert(null)
InitNull == rootNode = Null /\ tree = <<>> /\ Idle

Init == InitStructure \/ InitTypes \/ InitLayout \/ InitNull \/ InitFills \/ InitFlex
          \/ InitText \/ InitStrokes \/ InitGradient \/ InitEffects
          \/ InitCharacters \/ InitRadius

Spec == Init /\ [][Next]_vars

\* the trees given to successive calls: a lone frame, a frame with a text, a
\* canvas with two artboards, an auto-layout frame with a child, a document
\* with one artboard, a frame with an invisible child
CallTrees ==
    { StructureTree(<<0>>, <<"FRAME">>, <<TRUE>>, "plain"),
      StructureTree(<<0, 1>>, <<"FRAME", "TEXT">>, <<TRUE, TRUE>>, "plain"),
      StructureTree(<<0, 1, 1>>, <<"CANVAS", "FRAME", "FRAME">>, <<TRUE, TRUE, TRUE>>, "plain"),
      StructureTree(<<0, 1>>, <<"FRAME", "FRAME">>, <<TRUE, TRUE>>, "auto"),
      StructureTree(<<0, 1, 2>>, <<"DOCUMENT", "CANVAS", "FRAME">>, <<TRUE, TRUE, TRUE>>, "plain"),
      StructureTree(<<0, 1, 1>>, <<"FRAME", "FRAME", "TEXT">>, <<TRUE, FALSE, TRUE>>, "auto") }

\* convert has returned and the same service instance is called again, with
\* the same tree or another.  convert is synchronous: calls on one instance
\* follow each other.  The locals of the call that ended are gone; the
\* context it allocated is kept here, where a service holding on to it
\* would find it.
ConvertAgain ==
    /\ pc = "done"
    /\ Len(log) + 1 < MaxCalls
    /\ log' = Append(log, [input |-> tree, output |-> result])
    /\ tree' \in CallTrees
    /\ pc' = "idle"
    /\ nodesToProcess' = <<>>
    /\ artboardIndex' = 0
    /\ artboardsHtml' = <<>>
    /\ stack' = <<>>
    /\ result' = NoResult
    /\ emitted' = <<>>
    /\ UNCHANGED apiVars
    /\ UNCHANGED <<rootNode, context, error>>

NextCalls == Next \/ ConvertAgain

\* a first call on one of CallTrees
InitCalls == rootNode = 1 /\ tree \in CallTrees /\ Idle

\* successive calls of convert on one service instance
SpecCalls == InitCalls /\ [][NextCalls]_vars

----------------------------------------------------------------------------
(* The helpers called on their own.  log holds the one call: its arguments,
   and its return value once it has returned. *)

\* a call of helper fn that has not returned
Pending(fn, input) == <<[fn |-> fn, input |-> input, output |-> <<>>]>>

\* no conversion is going on
NoConversion ==
    /\ rootNode = Null
    /\ tree = <<>>
    /\ pc = "idle"
    /\ nodesToProcess = <<>>
    /\ context = NewContext
    /\ artboardIndex = 0
    /\ artboardsHtml = <<>>
    /\ stack = <<>>
    /\ result = NoResult
    /\ error = NoError
    /\ emitted = <<>>
    /\ NoFetch

\* the channel values a colour is built from, in thousandths: the ends, and
\* values whose product with 255 falls on, below and above a half
ColorChannels == {0, 100, 250, 498, 500, 1000}

\* the colours passed to rgba: none, and colours with and without alpha
ColorSamples ==
    {NoColor} \cup
    {Color(cr, cg, 1000, ca) : cr \in ColorChannels, cg \in {0, 250},
                               ca \in {<<>>, <<0>>, <<800>>, <<1000>>}}

\* the overrides passed to rgba: none, zero, a half
OverrideSamples == {<<>>, <<0>>, <<500>>}

\* this.rgba(color, opacityOverride) is about to be called
InitRgba ==
    /\ NoConversion
    /\ \E color \in ColorSamples, opacityOverride \in OverrideSamples :
          log = Pending("rgba", [color |-> color, opacityOverride |-> opacityOverride])

\* the call of rgba returns
CallRgba ==
    /\ pc = "idle"
    /\ log[1].fn = "rgba"
    /\ log' = [log EXCEPT ![1].output =
                  <<rgba(log[1].input.color, log[1].input.opacityOverride)>>]
    /\ pc' = "done"
    /\ UNCHANGED apiVars
    /\ UNCHANGED <<rootNode, tree, nodesToProcess, context, artboardIndex,
                   artboardsHtml, stack, result, error, emitted>>

NextRgba == CallRgba

SpecRgba == InitRgba /\ [][NextRgba]_vars

\* the characters ids are made of: letters, a digit, the two marks the
\* class keeps, and characters it does not keep
IdChars == {"a", "Z", "0", "_", "-", ":", ";", " "}

\* node.id.replace(...) is about to be called on an id of at most MaxIdLen
\* characters
InitSanitize ==
    /\ NoConversion
    /\ \E nid \in UNION {[1..k -> IdChars] : k \in 0..MaxIdLen} :
          log = Pending("sanitize", nid)

\* the replace returns
CallSanitize ==
    /\ pc = "idle"
    /\ log[1].fn = "sanitize"
    /\ log' = [log EXCEPT ![1].output = <<SanitizeId(log[1].input)>>]
    /\ pc' = "done"
    /\ UNCHANGED apiVars
    /\ UNCHANGED <<rootNode, tree, nodesToProcess, context, artboardIndex,
                   artboardsHtml, stack, result, error, emitted>>

NextSanitize == CallSanitize

SpecSanitize == InitSanitize /\ [][NextSanitize]_vars

----------------------------------------------------------------------------
(* FigmaApiService.getFile (apps/server/.../infrastructure/figma-api
   .service.ts): one request to the Figma API per call of fetchWithRetry,
   retried after a sleep when the failure looks transient. *)

maxRetries == 2

baseDelayMs == 1000

\* HttpStatus.INTERNAL_SERVER_ERROR
INTERNAL_SERVER_ERROR == 500

\* axios.get resolved: a response whose data has a document, or has none
Success(document) ==
    [kind |-> "response", status |-> 200, err |-> "", document |-> document]

\* axios.get rejected with err.response: the status, and data.err if any
HttpError(status, err) ==
    [kind |-> "error", status |-> status, err |-> err, document |-> "undefined"]

\* axios.get rejected without err.response: no status
NetworkError == [kind |-> "error", status |-> 0, err |-> "", document |-> "undefined"]

\* the statuses the upstream answers a failed request with
HttpStatuses == {429, 503, 403, 404, 500}

\* what one axios.get can end with
Outcomes ==
    {Success("document"), Success("undefined"), NetworkError}
        \cup {HttpError(status, err) : status \in HttpStatuses, err \in {"", "Not found"}}

\* figmaApiToDomain(apiResponse) throws `Invalid Figma API response` for a
\* null or undefined response; the Error it throws has no response field
figmaApiToDomainThrows(apiResponse) == apiResponse = "undefined"

\* the err the catch block gets: the rejection of axios.get, or the Error
\* thrown by figmaApiToDomain inside the try block
Caught(outcome) ==
    IF outcome.kind = "response"
    THEN [status |-> 0, err |-> ""]
    ELSE [status |-> outcome.status, err |-> outcome.err]

\* IsRetryable with every 5xx status taken for transient
IsRetryableServerErrors(status) == status = 429 \/ status >= 500 \/ status = 0

\* status === 429 || status === 503 || !status
IsRetryable(status) == status = 429 \/ status = 503 \/ status = 0

\* ShouldRetry with the attempt compared by <=
ShouldRetryOnceMore(status, attemptNo) == IsRetryable(status) /\ attemptNo <= maxRetries

\* isRetryable && attempt < this.maxRetries
ShouldRetry(status, attemptNo) == IsRetryable(status) /\ attemptNo < maxRetries

\* new HttpException(err.response?.data?.err || 'Failed to fetch Figma file',
\*                   err.response?.status || HttpStatus.INTERNAL_SERVER_ERROR)
HttpExceptionOf(err) ==
    [thrown  |-> TRUE,
     message |-> IF err.err # "" THEN err.err ELSE "Failed to fetch Figma file",
     status  |-> IF err.status # 0 THEN err.status ELSE INTERNAL_SERVER_ERROR]

\* getFile(fileKey, token): fetchWithRetry(fileKey, token, 0)
GetFile ==
    /\ apiPc = "idle"
    /\ apiPc' = "requesting"
    /\ attempt' = 0
    /\ UNCHANGED <<requests, delays, responses, exception>>
    /\ UNCHANGED converterVars

\* fetchWithRetry from axios.get to its return, its throw or its sleep: the
\* request ends with some outcome; a response is mapped and returned, and
\* whatever is thrown in the try block, by axios or by the mapper, is caught
FetchWithRetry ==
    /\ apiPc = "requesting"
    /\ \E outcome \in Outcomes :
          /\ requests' = requests + 1
          /\ responses' = Append(responses, outcome)
          /\ IF outcome.kind = "response" /\ ~figmaApiToDomainThrows(outcome.document)
             THEN /\ apiPc' = "returned"
                  /\ UNCHANGED <<delays, exception>>
             ELSE LET err == Caught(outcome) IN
                  IF ShouldRetry(err.status, attempt)
                  THEN /\ apiPc' = "sleeping"
                       /\ delays' = Append(delays, baseDelayMs * 2^attempt)
                       /\ UNCHANGED exception
                  ELSE /\ apiPc' = "thrown"
                       /\ exception' = HttpExceptionOf(err)
                       /\ UNCHANGED delays
    /\ UNCHANGED attempt
    /\ UNCHANGED converterVars

\* the sleep is over: fetchWithRetry(fileKey, token, attempt + 1)
Retry ==
    /\ apiPc = "sleeping"
    /\ apiPc' = "requesting"
    /\ attempt' = attempt + 1
    /\ UNCHANGED <<requests, delays, responses, exception>>
    /\ UNCHANGED converterVars

NextApi == GetFile \/ FetchWithRetry \/ Retry

InitApi == NoConversion /\ log = <<>>

\* one call of getFile, for every sequence of upstream outcomes
SpecApi == InitApi /\ [][NextApi]_vars

\* the same with every request getting its outcome and every timer firing
SpecApiFair == SpecApi /\ WF_vars(NextApi)

----------------------------------------------------------------------------
(* Vocabulary of the properties: the input tree, read without the code *)

Nodes == DOMAIN tree

\* the parent of node n, 0 for the root
ParentOf(n) ==
    LET ps == {m \in Nodes : \E k \in DOMAIN tree[m].children : tree[m].children[k] = n}
    IN  IF ps = {} THEN 0 ELSE CHOOSE m \in ps : TRUE

\* the proper ancestors of node n
RECURSIVE AncestorsOf(_)
AncestorsOf(n) ==
    IF ParentOf(n) = 0 THEN {} ELSE {ParentOf(n)} \cup AncestorsOf(ParentOf(n))

DescendantsOf(n) == {d \in Nodes : n \in AncestorsOf(d)}

\* the elements of a set of numbers in ascending order
RECURSIVE Ascending(_)
Ascending(S) ==
    IF S = {} THEN <<>>
    ELSE LET m == CHOOSE x \in S : \A y \in S : x <= y
         IN  <<m>> \o Ascending(S \ {m})

\* the container children of the canvases that have no canvas above them
LocatedArtboards ==
    {n \in Nodes :
        /\ tree[n].type \in {"FRAME", "SECTION", "COMPONENT"}
        /\ ParentOf(n) # 0
        /\ tree[ParentOf(n)].type = "CANVAS"
        /\ \A m \in AncestorsOf(ParentOf(n)) : tree[m].type # "CANVAS"}

\* the artboards convert is to emit, in document order: the located ones, or
\* the root when there is none
ExpectedRoots ==
    IF LocatedArtboards = {} THEN <<rootNode>> ELSE Ascending(LocatedArtboards)

\* n lies in the subtree of a (n = a included)
InSubtree(n, a) == n = a \/ a \in AncestorsOf(n)

\* the nodes from a down to n, both included
PathFrom(a, n) ==
    LET up == {n} \cup AncestorsOf(n)
    IN  IF a \in up THEN up \ AncestorsOf(a) ELSE {}

\* the nodes the emitter is to reach: in an artboard, visible like every node
\* between the artboard and them, and below no text node that has content
ExpectedEmitted ==
    LET roots == Range(ExpectedRoots)
    IN  {n \in Nodes :
            \E a \in roots :
                LET path == PathFrom(a, n)
                IN  /\ path # {}
                    /\ \A m \in path : tree[m].visible
                    /\ \A m \in path \ {n} :
                          ~(tree[m].type = "TEXT" /\ tree[m].characters # <<>>)}

Finished == pc = "done"

\* the rules after the fixed part of the stylesheet
NodeRules == SubSeq(result.css, Len(BaseCss) + 1, Len(result.css))

HasDecl(styles, prop, kw) ==
    \E j \in DOMAIN styles : styles[j].prop = prop /\ styles[j].kw = kw

HasProp(styles, prop) == \E j \in DOMAIN styles : styles[j].prop = prop

IsPosition(d) == d.prop = "position"

IsOffset(d) == d.prop \in {"left", "top"}

\* the open tags of html, in order
IsOpen(tok) == tok.kind = "open"

OpenTags(html) == SelectSeq(html, IsOpen)

HasClass(html, class) ==
    \E i \in DOMAIN html : html[i].kind = "open" /\ html[i].class = class

\* the number of elements open just before token i
DepthAt(html, i) ==
    Cardinality({j \in 1..(i - 1) : html[j].kind = "open"})
      - Cardinality({j \in 1..(i - 1) : html[j].kind = "close"})

\* the indices of the open tags at nesting depth d, ascending
OpensAtDepth(html, d) ==
    Ascending({i \in DOMAIN html : html[i].kind = "open" /\ DepthAt(html, i) = d})

----------------------------------------------------------------------------
(* C1 *)

\* C1 as stated: after convert, for every node with visible == false, no rule
\* is keyed by its class, no element carries its class, and the same holds
\* for every descendant of it.
C1_InvisibleSubtreeAbsent ==
    Finished =>
        \A n \in Nodes : ~tree[n].visible =>
            \A d \in {n} \cup DescendantsOf(n) :
                /\ \A i \in DOMAIN result.css :
                      result.css[i].selector # ClassName(tree[d].id)
                /\ ~HasClass(result.html, ClassName(tree[d].id))

\* C1, amended: at every moment of convert, no rule has been pushed and no
\* call is in progress for a node with visible == false, nor, when that node
\* is an artboard or lies inside one, for any of its descendants; and in the
\* result every rule after the fixed part and every element other than the
\* wrapper belongs to a node that was emitted.
C1_SkippedSubtreeNeverVisited ==
    /\ \A d \in Range(emitted) \cup {stack[k].node : k \in DOMAIN stack} :
          /\ tree[d].visible
          /\ \A n \in AncestorsOf(d) :
                (\E a \in Range(nodesToProcess) : InSubtree(n, a)) => tree[n].visible
    /\ Finished =>
          /\ Len(NodeRules) = Len(emitted)
          /\ Len(OpenTags(result.html)) =
                Len(emitted) + (IF HasClass(result.html, ArtboardsContainerClass)
                                THEN 1 ELSE 0)

\* C1 happens: convert ended having emitted a node whose invisible sibling
\* has a child
C1_Witness ==
    /\ Finished
    /\ emitted # <<>>
    /\ \E n \in Nodes :
          /\ ~tree[n].visible
          /\ DescendantsOf(n) # {}
          /\ \E a \in Range(nodesToProcess) : InSubtree(n, a) /\ n # a /\ tree[a].visible

----------------------------------------------------------------------------
(* C2 - C5: the positioning of the emitted nodes *)

\* the declarations of the rule pushed for emitted[i]
StylesOf(i) == context.cssRules[i].styles

PositionOf(i) == SelectSeq(StylesOf(i), IsPosition)

OffsetsOf(i) == SelectSeq(StylesOf(i), IsOffset)

\* the emitted positions whose node is an artboard
RootRules == {i \in DOMAIN emitted : emitted[i] \in Range(ExpectedRoots)}

\* the emitted positions whose node is below an artboard
InnerRules == DOMAIN emitted \ RootRules

\* left and top as the difference of the two bounding boxes, when both exist
ExpectedOffsets(n) ==
    LET box  == tree[n].absoluteBoundingBox
        pbox == tree[ParentOf(n)].absoluteBoundingBox
    IN  IF box.defined /\ pbox.defined
        THEN << Decl("left", "px", <<box.x - pbox.x>>),
                Decl("top", "px", <<box.y - pbox.y>>) >>
        ELSE <<>>

IsFlex(n) == tree[n].layoutMode \in {"HORIZONTAL", "VERTICAL"}

C3_ForcedAbsoluteWins ==
    Finished =>
        \A i \in InnerRules :
            tree[emitted[i]].layoutPositioning = "ABSOLUTE" =>
                PositionOf(i) = << Decl("position", "absolute", <<>>) >>

\* C3 happens: a forced-absolute node with children was emitted under a flex
\* parent
C3_Witness ==
    Finished /\ \E i \in InnerRules :
        /\ tree[emitted[i]].layoutPositioning = "ABSOLUTE"
        /\ IsFlex(ParentOf(emitted[i]))
        /\ tree[emitted[i]].children # <<>>

\* a child of n that will itself be positioned absolutely: it is
\* forced-absolute, or its parent n has no flex layout
HasChildNeedingContainment(n) ==
    \E c \in Range(tree[n].children) :
        tree[c].layoutPositioning = "ABSOLUTE" \/ ~IsFlex(n)

\* C4: in convert's result, a non-root node that is not forced-absolute and
\* whose parent is a flex container has position relative if one of its
\* children will require absolute positioning, and position static otherwise.
C4_FlexChildRelativeOrStatic ==
    Finished => \A i \in InnerRules :
        LET n == emitted[i] IN
        (tree[n].layoutPositioning # "ABSOLUTE" /\ IsFlex(ParentOf(n))) =>
            PositionOf(i) =
                << Decl("position",
                        IF HasChildNeedingContainment(n) THEN "relative" ELSE "static",
                        <<>>) >>

\* C5: in convert's result, a non-root node that is not forced-absolute and
\* whose parent is not a flex container has position absolute, with left and
\* top the differences of the two bounding boxes when both exist and neither
\* otherwise.
C5_DefaultAbsoluteWithOffsets ==
    Finished => \A i \in InnerRules :
        LET n == emitted[i] IN
        (tree[n].layoutPositioning # "ABSOLUTE" /\ ~IsFlex(ParentOf(n))) =>
            /\ PositionOf(i) = << Decl("position", "absolute", <<>>) >>
            /\ OffsetsOf(i) = ExpectedOffsets(n)

\* C5 happens: a default-positioned node at (50,75) under a parent at (20,30)
\* was emitted with left 30 and top 45
C5_Witness ==
    Finished /\ \E i \in InnerRules :
        LET n == emitted[i] IN
        /\ tree[n].layoutPositioning # "ABSOLUTE"
        /\ ~IsFlex(ParentOf(n))
        /\ tree[n].absoluteBoundingBox.defined
        /\ tree[ParentOf(n)].absoluteBoundingBox.defined
        /\ OffsetsOf(i) = << Decl("left", "px", <<30>>), Decl("top", "px", <<45>>) >>

----------------------------------------------------------------------------
(* C6 - C10: artboards, wrapper, stylesheet, emission order, null root *)

Started == pc \in {"walking", "done"}

IsVisible(n) == tree[n].visible

\* the class names of the visible artboards, in document order
VisibleRootClasses ==
    LET vis == SelectSeq(ExpectedRoots, IsVisible)
    IN  [k \in DOMAIN vis |-> ClassName(tree[vis[k]].id)]

\* the classes of the open tags of html at nesting depth d, in order
ClassesAtDepth(html, d) ==
    LET at == OpensAtDepth(html, d) IN [k \in DOMAIN at |-> html[at[k]].class]

C7_WrapperIffSeveralArtboards ==
    Finished =>
        LET html == result.html IN
        IF Len(ExpectedRoots) >= 2
        THEN /\ html[1] = OpenTag(ArtboardsContainerClass)
             /\ html[Len(html)] = CloseTag
             /\ OpensAtDepth(html, 0) = <<1>>
             /\ Cardinality({i \in DOMAIN html :
                    html[i].kind = "open" /\ html[i].class = ArtboardsContainerClass}) = 1
             /\ ClassesAtDepth(html, 1) = VisibleRootClasses
        ELSE /\ ~HasClass(html, ArtboardsContainerClass)
             /\ ClassesAtDepth(html, 0) = VisibleRootClasses

\* C7 happens: two visible artboards were wrapped
C7_Witness ==
    /\ Finished
    /\ Len(ExpectedRoots) = 2
    /\ Len(VisibleRootClasses) = 2
    /\ HasClass(result.html, ArtboardsContainerClass)

\* C8: the stylesheet holds the .artboards-container rule if and only if
\* there were several artboards.
C8_ContainerRuleIffSeveralArtboards ==
    Finished =>
        ((\E i \in DOMAIN result.css : result.css[i].selector = ArtboardsContainerClass)
            <=> Len(ExpectedRoots) > 1)

\* the depth of node n below the one of the artboards roots that holds it
DepthInArtboard(n, roots) ==
    LET a == CHOOSE r \in Range(roots) : InSubtree(n, r)
    IN  Cardinality(PathFrom(a, n)) - 1

\* the indices of the open tags of the node elements of html, ascending
NodeOpens(html) ==
    Ascending({i \in DOMAIN html :
        html[i].kind = "open" /\ html[i].class # ArtboardsContainerClass})

\* C9: after the fixed part the stylesheet has one rule per emitted node, in
\* document order (a node before its descendants, siblings in child order,
\* artboards in located order), and the markup has one element per emitted
\* node, in the same order and nested as in the tree; a text node with
\* content holds its text and no element.
C9_OneRuleAndElementPerNodeInOrder ==
    Finished =>
        LET exp   == Ascending(ExpectedEmitted)
            roots == ExpectedRoots
            html  == result.html
            opens == NodeOpens(html)
            off   == IF HasClass(html, ArtboardsContainerClass) THEN 1 ELSE 0
        IN  /\ emitted = exp
            /\ Len(result.css) = Len(BaseCss) + Len(exp)
            /\ \A k \in DOMAIN exp :
                  NodeRules[k].selector = ClassName(tree[exp[k]].id)
            /\ Len(opens) = Len(exp)
            /\ \A k \in DOMAIN exp :
                  /\ html[opens[k]].class = ClassName(tree[exp[k]].id)
                  /\ DepthAt(html, opens[k]) - off = DepthInArtboard(exp[k], roots)
                  /\ (tree[exp[k]].type = "TEXT" /\ tree[exp[k]].characters # <<>>) =>
                        /\ html[opens[k] + 1].kind = "text"
                        /\ html[opens[k] + 2].kind = "close"
            /\ Cardinality({i \in DOMAIN html : html[i].kind = "text"}) =
                  Cardinality({k \in DOMAIN exp :
                      tree[exp[k]].type = "TEXT" /\ tree[exp[k]].characters # <<>>})
            /\ \A i \in 1..(Len(html) + 1) : DepthAt(html, i) >= 0
            /\ DepthAt(html, Len(html) + 1) = 0

\* C9 happens: three nodes nested in each other were emitted
C9_Witness ==
    /\ Finished
    /\ Len(emitted) >= 3
    /\ \E k \in DOMAIN emitted : DepthInArtboard(emitted[k], ExpectedRoots) = 2

\* C10 as stated: with a null root convert fails with an invalid-input error
\* of its own, raised by convert before artboard location.
C10_NullRootInvalidInputError ==
    (rootNode = Null /\ pc # "idle") =>
        /\ pc = "failed"
        /\ error = [kind |-> "InvalidInput", at |-> "convert"]

\* C10, amended: with a null root convert ends with the TypeError thrown by
\* findAllArtboards' first read of the node; no rule is pushed, no node is
\* visited and no result is returned.
C10_NullRootThrowsTypeError ==
    rootNode = Null =>
        /\ pc \in {"idle", "failed"}
        /\ pc = "failed" => error = TypeErrorAt("findAllArtboards")
        /\ result = NoResult
        /\ context.cssRules = <<>>
        /\ stack = <<>>
        /\ emitted = <<>>

\* C10 happens: convert(null) has failed
C10_Witness == rootNode = Null /\ pc = "failed"

----------------------------------------------------------------------------
(* C11 - C20: failures, reentrancy, flex containers, paints, shadows *)

\* C11: on a non-null tree convert never ends with an exception, whatever
\* fields its nodes lack and whatever its paints and effects hold, a linear
\* gradient without stops or with an incomplete handle list included.
C11_NonNullRootNeverThrows == rootNode # Null => pc # "failed"

\* the rules a convert call on the current tree is to give, by selector
ExpectedSelectors ==
    LET exp == Ascending(ExpectedEmitted)
    IN  [k \in DOMAIN exp |-> ClassName(tree[exp[k]].id)]

\* C12: a call of convert does not see the calls before it on the same
\* service: its result is the one every earlier call on the same tree gave
\* (the first of them on a fresh service), and its stylesheet holds the fixed
\* part and one rule per node this call emitted, none left by another call.
C12_CallsShareNothing ==
    Finished =>
        /\ \A i \in DOMAIN log : log[i].input = tree => log[i].output = result
        /\ Len(result.css) = Len(BaseCss) + Len(ExpectedSelectors)
        /\ \A k \in DOMAIN ExpectedSelectors :
              NodeRules[k].selector = ExpectedSelectors[k]
        /\ emitted = Ascending(ExpectedEmitted)

\* C12 happens: a call that emitted rules was followed by a call on another
\* tree, which has returned
C12_Witness ==
    /\ Finished
    /\ log # <<>>
    /\ log[Len(log)].input # tree
    /\ Len(log[Len(log)].output.css) > Len(BaseCss)
    /\ Len(result.css) > Len(BaseCss)

\* the node a rule of the result was pushed for, as the tree has it
NodeAt(i) == tree[emitted[i]]

IsFlexProp(d) ==
    d.prop \in {"display", "flex-direction", "gap", "padding", "align-items",
                "justify-content"}

\* the flex declarations of the rule pushed for emitted[i]
FlexOf(i) == SelectSeq(StylesOf(i), IsFlexProp)

\* the flex container of node n with the alignment keywords of table(_)
FlexContainer(n, table(_)) ==
    << Decl("display", "flex", <<>>),
       Decl("flex-direction", IF n.layoutMode = "HORIZONTAL" THEN "row" ELSE "column", <<>>),
       Decl("gap", "px", <<n.itemSpacing>>),
       Decl("padding", "px", <<n.paddingTop, n.paddingRight, n.paddingBottom, n.paddingLeft>>),
       Decl("align-items", table(n.counterAxisAlignItems), <<>>),
       Decl("justify-content", table(n.primaryAxisAlignItems), <<>>) >>

\* the alignment table of the claim
StartEndTable(alignment) ==
    CASE alignment = "MIN" -> "start" [] alignment = "MAX" -> "end"
      [] alignment = "CENTER" -> "center" [] alignment = "BASELINE" -> "baseline"
      [] alignment = "STRETCH" -> "stretch"
      [] alignment = "SPACE_BETWEEN" -> "space-between"
      [] OTHER -> "start"

\* the alignment table with the flexbox keywords
FlexStartEndTable(alignment) ==
    CASE alignment = "MIN" -> "flex-start" [] alignment = "MAX" -> "flex-end"
      [] alignment = "CENTER" -> "center" [] alignment = "BASELINE" -> "baseline"
      [] alignment = "STRETCH" -> "stretch"
      [] alignment = "SPACE_BETWEEN" -> "space-between"
      [] OTHER -> "flex-start"

\* C13 as stated: whatever its positioning, the rule of a node with
\* layoutMode HORIZONTAL or VERTICAL holds display flex, the direction, gap,
\* padding, and align-items and justify-content from the table MIN -> start,
\* MAX -> end, ..., unknown or absent -> start; the rule of any other node
\* holds no flex-direction, gap or padding.
C13_FlexContainerStartEnd ==
    Finished =>
        \A i \in DOMAIN emitted :
            IF NodeAt(i).layoutMode \in {"HORIZONTAL", "VERTICAL"}
            THEN FlexOf(i) = FlexContainer(NodeAt(i), StartEndTable)
            ELSE \A j \in DOMAIN FlexOf(i) :
                    FlexOf(i)[j].prop \in {"display", "align-items", "justify-content"}

\* C13, amended: the same with the table MIN -> flex-start, MAX -> flex-end,
\* CENTER -> center, BASELINE -> baseline, STRETCH -> stretch,
\* SPACE_BETWEEN -> space-between, unknown or absent -> flex-start.
C13_FlexContainerFlexStartEnd ==
    Finished =>
        \A i \in DOMAIN emitted :
            IF NodeAt(i).layoutMode \in {"HORIZONTAL", "VERTICAL"}
            THEN FlexOf(i) = FlexContainer(NodeAt(i), FlexStartEndTable)
            ELSE \A j \in DOMAIN FlexOf(i) :
                    FlexOf(i)[j].prop \in {"display", "align-items", "justify-content"}

\* C13 happens: a forced-absolute VERTICAL node with spacing, padding, MAX on
\* the counter axis and an unknown value on the primary axis was emitted
C13_Witness ==
    /\ Finished
    /\ \E i \in InnerRules :
          /\ NodeAt(i).layoutMode = "VERTICAL"
          /\ NodeAt(i).layoutPositioning = "ABSOLUTE"
          /\ NodeAt(i).itemSpacing = 8 /\ NodeAt(i).paddingLeft = 4
          /\ NodeAt(i).counterAxisAlignItems = "MAX"
          /\ NodeAt(i).primaryAxisAlignItems = "SPACE_AROUND"

\* the children of node n that are text nodes
TextChildren(n) == {c \in Range(tree[n].children) : tree[c].type = "TEXT"}

\* n is not a flex container, none of its children is forced-absolute, and
\* the one text node among them has a style with an alignment
HoldsAlignedText(n) ==
    /\ tree[n].type # "TEXT"
    /\ ~IsFlex(n)
    /\ \A c \in Range(tree[n].children) : tree[c].layoutPositioning # "ABSOLUTE"
    /\ Cardinality(TextChildren(n)) = 1
    /\ \A c \in TextChildren(n) :
          /\ tree[c].style.defined
          /\ \/ tree[c].style.textAlignHorizontal # "undefined"
             \/ tree[c].style.textAlignVertical # "undefined"

\* the flex keyword that mirrors a text alignment, center when unspecified
MirrorAlign(align) ==
    CASE align \in {"TOP", "LEFT"} -> "flex-start"
      [] align \in {"BOTTOM", "RIGHT"} -> "flex-end"
      [] OTHER -> "center"

C15_FrameOfCenteredTextIsFlex ==
    ( /\ Finished
      /\ Len(tree) = 2
      /\ tree[1].type = "FRAME" /\ ~IsFlex(1) /\ tree[1].children = <<2>>
      /\ tree[2].type = "TEXT"
      /\ tree[2].style.defined /\ tree[2].style.textAlignHorizontal = "CENTER"
      /\ tree[2].layoutMode = "undefined" /\ tree[2].layoutPositioning = "undefined" )
    => /\ HasDecl(StylesOf(1), "display", "flex")
       /\ HasDecl(StylesOf(1), "justify-content", "center")
       /\ ~HasDecl(StylesOf(2), "display", "flex")

IsBackground(d) == d.prop = "background"

\* the background declarations of the rule at position i
BackgroundOf(i) == SelectSeq(StylesOf(i), IsBackground)

\* the fills of node n with visible != false
VisibleFills(n) == SelectSeq(tree[n].fills.items, IsVisiblePaint)

\* the background a single paint stands for: its colour, its gradient, the
\* image placeholder, or nothing (a gradient that has no angle has none)
BackgroundFrom(fill) ==
    LET value == CASE fill.type = "SOLID" -> rgba(fill.color, fill.opacity)
                   [] fill.type = "GRADIENT_LINEAR" /\ parseGradientThrows(fill) ->
                        EmptyString
                   [] fill.type = "GRADIENT_LINEAR" -> parseGradient(fill)
                   [] fill.type = "IMAGE" -> ImagePlaceholder
                   [] OTHER -> EmptyString
    IN  IF value = EmptyString THEN <<>>
        ELSE <<DeclArgs("background", value.kind, value.nums, value.args)>>

\* C16: the background of a non-text node with a fills list comes from the
\* last fill with visible != false alone, whatever the other fills are, and
\* there is no background when no fill is visible.
C16_BackgroundFromLastVisibleFill ==
    Finished =>
        \A i \in DOMAIN emitted :
            (NodeAt(i).type # "TEXT" /\ NodeAt(i).fills.defined) =>
                LET valid == VisibleFills(emitted[i]) IN
                BackgroundOf(i) = IF valid = <<>> THEN <<>>
                                  ELSE BackgroundFrom(valid[Len(valid)])

\* a converted frame with a visible solid fill under a visible gradient
C16_Witness ==
    /\ Finished
    /\ \E i \in DOMAIN emitted :
          /\ NodeAt(i).type = "FRAME" /\ NodeAt(i).fills.defined
          /\ LET valid == VisibleFills(emitted[i]) IN
             /\ Len(valid) = 2
             /\ valid[1].type = "SOLID" /\ valid[1].color.defined
             /\ valid[2].type = "GRADIENT_LINEAR"
             /\ BackgroundOf(i) # <<>>
             /\ BackgroundOf(i) = BackgroundFrom(valid[2])

IsBorder(d) == d.prop = "border"

\* the border declarations of the rule at position i
BorderOf(i) == SelectSeq(StylesOf(i), IsBorder)

\* the border a single paint stands for: solid in its colour, or nothing
BorderFrom(paint, strokeWeight) ==
    IF paint.type = "SOLID"
    THEN << DeclArgs("border", "solid", <<strokeWeight>>,
                     <<rgba(paint.color, paint.opacity)>>) >>
    ELSE <<>>

\* C17: the border of a node with strokes and a stroke weight comes from the
\* last stroke with visible != false, as the background does from the fills.
C17_BorderFromLastVisibleStroke ==
    Finished =>
        \A i \in DOMAIN emitted :
            (NodeAt(i).strokes # <<>> /\ NodeAt(i).strokeWeight # 0) =>
                LET valid == SelectSeq(NodeAt(i).strokes, IsVisiblePaint) IN
                BorderOf(i) = IF valid = <<>> THEN <<>>
                              ELSE BorderFrom(valid[Len(valid)], NodeAt(i).strokeWeight)

\* the asset references a tree is compared under
ImageRefs == {"", "a", "b"}

\* the node with every image fill referring to ref
WithImageRef(node, ref) ==
    IF ~node.fills.defined THEN node
    ELSE [node EXCEPT !.fills.items =
            [k \in DOMAIN @ |-> IF @[k].type = "IMAGE"
                                THEN [@[k] EXCEPT !.imageRef = ref] ELSE @[k]]]

\* the fill selected for node n is an image
SelectsImage(n) ==
    /\ tree[n].type # "TEXT"
    /\ tree[n].fills.defined
    /\ VisibleFills(n) # <<>>
    /\ VisibleFills(n)[Len(VisibleFills(n))].type = "IMAGE"

SelectsGradient(n) ==
    /\ tree[n].type # "TEXT"
    /\ tree[n].fills.defined
    /\ VisibleFills(n) # <<>>
    /\ LET fill == VisibleFills(n)[Len(VisibleFills(n))] IN
       /\ fill.type = "GRADIENT_LINEAR"
       /\ fill.gradientStops.defined
       /\ fill.gradientHandlePositions.defined
       /\ Len(fill.gradientHandlePositions.items) >= 2

\* atan2(dy, dx) in degrees plus 90, for the directions between corners:
\* right 90, down 180, left 270, up 0, and the diagonals between them
GradientAngle(start, end) ==
    LET dy == end.y - start.y
        dx == end.x - start.x
    IN  CASE dx > 0 /\ dy = 0 -> 90
          [] dx > 0 /\ dy > 0 -> 135
          [] dx = 0 /\ dy > 0 -> 180
          [] dx < 0 /\ dy > 0 -> 225
          [] dx < 0 /\ dy = 0 -> 270
          [] dx < 0 /\ dy < 0 -> -45
          [] dx = 0 /\ dy < 0 -> 0
          [] dx > 0 /\ dy < 0 -> 45
          [] OTHER            -> 90

\* C19: the angle of the gradient emitted for a linear gradient fill is
\* atan2(end.y - start.y, end.x - start.x) in degrees plus 90 for its first
\* two handles: 90 for (0,0)->(1,0), and 180, 270, 0 for down, left, up.
C19_GradientAngleFromHandles ==
    Finished =>
        \A i \in DOMAIN emitted :
            SelectsGradient(emitted[i]) =>
                LET fill    == VisibleFills(emitted[i])[Len(VisibleFills(emitted[i]))]
                    handles == fill.gradientHandlePositions.items
                IN  /\ Len(BackgroundOf(i)) = 1
                    /\ BackgroundOf(i)[1].kw = "linear-gradient"
                    /\ BackgroundOf(i)[1].nums = <<GradientAngle(handles[1], handles[2])>>

\* a converted frame with a gradient running left, emitted with 270deg
C19_Witness ==
    /\ Finished
    /\ Len(tree) = 1 /\ SelectsGradient(1) /\ Len(VisibleFills(1)) = 1
    /\ LET handles == VisibleFills(1)[1].gradientHandlePositions.items IN
       handles[1] = Vector(1, 0) /\ handles[2] = Vector(0, 0)
    /\ BackgroundOf(1)[1].nums = <<270>>

IsBoxShadow(d) == d.prop = "box-shadow"

\* the shadow declarations of the rule at position i
BoxShadowOf(i) == SelectSeq(StylesOf(i), IsBoxShadow)

\* a visible drop shadow or inner shadow
Qualifies(e) == e.visible = TRUE /\ e.type \in {"DROP_SHADOW", "INNER_SHADOW"}

\* C20: the shadow declaration lists the effects with visible true and type
\* DROP_SHADOW or INNER_SHADOW, in source order, each as offset x, offset y,
\* blur radius, spread and colour, with inset exactly for an inner shadow;
\* blurs and invisible effects add nothing, and there is no shadow
\* declaration when no effect qualifies.
C20_ShadowsFromVisibleShadowEffects ==
    Finished =>
        \A i \in DOMAIN emitted :
            LET shadows == SelectSeq(NodeAt(i).effects, Qualifies) IN
            IF shadows = <<>> THEN BoxShadowOf(i) = <<>>
            ELSE /\ Len(BoxShadowOf(i)) = 1
                 /\ Len(BoxShadowOf(i)[1].args) = Len(shadows)
                 /\ \A k \in DOMAIN shadows :
                       LET part == BoxShadowOf(i)[1].args[k] IN
                       /\ (part.kind = "inset") = (shadows[k].type = "INNER_SHADOW")
                       /\ part.nums = << shadows[k].offset.x, shadows[k].offset.y,
                                         shadows[k].radius, shadows[k].spread >>
                       /\ part.args = <<rgba(shadows[k].color, <<>>)>>

\* a converted node with an inner shadow after a drop shadow, both emitted
C20_Witness ==
    /\ Finished
    /\ Len(tree) = 1
    /\ Len(tree[1].effects) = 2
    /\ tree[1].effects[1].type = "DROP_SHADOW" /\ tree[1].effects[1].visible
    /\ tree[1].effects[2].type = "INNER_SHADOW" /\ tree[1].effects[2].visible
    /\ Len(BoxShadowOf(1)) = 1
    /\ Len(BoxShadowOf(1)[1].args) = 2
    /\ BoxShadowOf(1)[1].args[2].kind = "inset"

IsColor(d) == d.prop = "color"

\* the color declarations of the rule at position i
ColorOf(i) == SelectSeq(StylesOf(i), IsColor)

IsVisibleSolidPaint(f) == IsVisiblePaint(f) /\ f.type = "SOLID"

\* the rule at position i has no background from a paint or a backgroundColor:
\* no background, and no background-color but the white of an artboard
HasNoPaintBackground(i) ==
    \A j \in DOMAIN StylesOf(i) :
        /\ StylesOf(i)[j].prop # "background"
        /\ StylesOf(i)[j].prop = "background-color" => StylesOf(i)[j].kw = "white"

\* C21 as stated: the color of a text node is that of the first of its fills
\* that is visible and solid, and a text node gets no background from its
\* fills or backgroundColor.
C21_TextColorFromFirstVisibleSolid ==
    Finished =>
        \A i \in DOMAIN emitted :
            (NodeAt(i).type = "TEXT" /\ NodeAt(i).style.defined /\ NodeAt(i).fills.defined) =>
                LET solids == SelectSeq(NodeAt(i).fills.items, IsVisibleSolidPaint) IN
                /\ ColorOf(i) = IF solids = <<>> THEN <<>>
                                ELSE <<ValueDecl("color",
                                                 rgba(solids[1].color, solids[1].opacity))>>
                /\ HasNoPaintBackground(i)

\* C21, amended: a text node with a style and fills gets the color of its
\* first visible fill when that fill is solid and no color otherwise
\* (whatever solid fills follow); a text node without a style or without
\* fills gets no color; a text node never gets a background from its fills
\* or backgroundColor.
C21_TextColorFromFirstVisibleFillIfSolid ==
    Finished =>
        \A i \in DOMAIN emitted :
            NodeAt(i).type = "TEXT" =>
                LET valid == SelectSeq(NodeAt(i).fills.items, IsVisiblePaint) IN
                /\ ColorOf(i) =
                      IF /\ NodeAt(i).style.defined /\ NodeAt(i).fills.defined
                         /\ valid # <<>> /\ valid[1].type = "SOLID"
                      THEN <<ValueDecl("color", rgba(valid[1].color, valid[1].opacity))>>
                      ELSE <<>>
                /\ HasNoPaintBackground(i)

\* a converted text node whose first visible fill is a gradient and whose
\* second is solid, with a backgroundColor: no color, no background
C21_Witness ==
    /\ Finished
    /\ \E i \in DOMAIN emitted :
          /\ NodeAt(i).type = "TEXT" /\ NodeAt(i).style.defined /\ NodeAt(i).fills.defined
          /\ NodeAt(i).backgroundColor.defined
          /\ LET valid == SelectSeq(NodeAt(i).fills.items, IsVisiblePaint) IN
             /\ Len(valid) = 2
             /\ valid[1].type = "GRADIENT_LINEAR"
             /\ valid[2].type = "SOLID" /\ valid[2].color.defined
          /\ ColorOf(i) = <<>>

\* a converted text node coloured by its first visible fill, a solid paint
\* listed after an invisible one
C21_WitnessColored ==
    /\ Finished
    /\ \E i \in DOMAIN emitted :
          /\ NodeAt(i).type = "TEXT"
          /\ Len(NodeAt(i).fills.items) = 2
          /\ NodeAt(i).fills.items[1].visible = FALSE
          /\ Len(ColorOf(i)) = 1

\* the integer nearest to ch * 255 / 1000, the upper one of two
NearestByte(ch) ==
    CHOOSE n \in 0..255 : 1000 * n - 500 <= 255 * ch /\ 255 * ch < 1000 * n + 500

\* the alpha of an encoded colour: the override, else the colour's, else 1
ResolvedAlpha(color, override) ==
    IF override # <<>> THEN override[1]
    ELSE IF color.a # <<>> THEN color.a[1] ELSE 1000

\* C22: rgba(color, override) returns, never throws: 'transparent' for no
\* colour, else rgba(round(255r), round(255g), round(255b), a) with a the
\* override whenever one is given, 0 included, else color.a when defined,
\* else 1.
C22_EncodeColor ==
    (Finished /\ log # <<>> /\ log[1].fn = "rgba") =>
        LET color    == log[1].input.color
            override == log[1].input.opacityOverride
        IN  /\ error = NoError
            /\ Len(log[1].output) = 1
            /\ log[1].output[1] =
                  IF ~color.defined THEN CssValue("transparent", <<>>, <<>>)
                  ELSE CssValue("rgba",
                                << NearestByte(color.r), NearestByte(color.g),
                                   NearestByte(color.b),
                                   ResolvedAlpha(color, override) >>, <<>>)

\* rgba has returned for a colour with alpha 0.8, a channel at one half and
\* the override 0
C22_Witness ==
    /\ Finished /\ log # <<>> /\ log[1].fn = "rgba"
    /\ log[1].input.color.defined
    /\ log[1].input.color.r = 500
    /\ log[1].input.color.a = <<800>>
    /\ log[1].input.opacityOverride = <<0>>
    /\ log[1].output[1].nums = <<128, 0, 255, 0>>

\* what one character of a text stands for in the markup
EscapedChar(c) ==
    CASE c = "&"  -> <<"&", "a", "m", "p", ";">>
      [] c = "<"  -> <<"&", "l", "t", ";">>
      [] c = ">"  -> <<"&", "g", "t", ";">>
      [] c = "\n" -> <<"<", "b", "r", "/", ">">>
      [] OTHER    -> <<c>>

\* the text with each character replaced once
Escaped(characters) == Flatten([i \in DOMAIN characters |-> EscapedChar(characters[i])])

\* the number of positions of s that hold c
CountOf(s, c) == Cardinality({i \in DOMAIN s : s[i] = c})

\* the text tokens of the markup, in order
TextsOf(html) ==
    LET IsText(t) == t.kind = "text"
        texts     == SelectSeq(html, IsText)
    IN  [k \in DOMAIN texts |-> texts[k].text]

\* the emitted text nodes that have characters, in order
TextNodes ==
    LET HasText(n) == tree[n].type = "TEXT" /\ tree[n].characters # <<>>
    IN  SelectSeq(emitted, HasText)

\* C23: the text of a node is emitted with every & as &amp; (and no more),
\* every < as &lt;, every > as &gt; and every newline as the line-break
\* marker, so that its only < and > are those of the markers.
C23_TextEscapedOnce ==
    Finished =>
        LET texts == TextsOf(result.html)
            nodes == TextNodes
        IN  /\ Len(texts) = Len(nodes)
            /\ \A k \in DOMAIN nodes :
                  LET characters == tree[nodes[k]].characters IN
                  /\ texts[k] = Escaped(characters)
                  /\ CountOf(texts[k], "<") = CountOf(characters, "\n")
                  /\ CountOf(texts[k], ">") = CountOf(characters, "\n")

\* a converted text "&<" and a newline, emitted as &amp;&lt;<br/>
C23_Witness ==
    /\ Finished
    /\ Len(tree) = 1
    /\ tree[1].characters = <<"&", "<", "\n">>
    /\ TextsOf(result.html) =
          << <<"&","a","m","p",";", "&","l","t",";", "<","b","r","/",">">> >>

\* the characters of [A-Za-z0-9_-]
KeptChars == Letters \cup Digits \cup {"_", "-"}

\* C24: the sanitizer replaces every character outside [A-Za-z0-9_-] by '-'
\* and keeps the others; its output is a function of the id alone, and
\* sanitizing its output changes nothing.
C24_SanitizerIdempotent ==
    (Finished /\ log # <<>> /\ log[1].fn = "sanitize") =>
        LET nid == log[1].input
            out == log[1].output[1]
        IN  /\ Len(out) = Len(nid)
            /\ \A i \in DOMAIN nid :
                  out[i] = IF nid[i] \in KeptChars THEN nid[i] ELSE "-"
            /\ out = SanitizeId(nid)
            /\ SanitizeId(out) = out

\* the sanitizer has returned for an id with a colon, an underscore and a
\* space
C24_Witness ==
    /\ Finished /\ log # <<>> /\ log[1].fn = "sanitize"
    /\ log[1].input = <<":", "_", " ">>
    /\ log[1].output = << <<"-", "_", "-">> >>

\* C25: in a tree whose node ids are pairwise distinct, two distinct emitted
\* nodes have distinct class names, and every node rule's selector is the
\* class of exactly one element of the markup.
C25_ClassNamesCollisionFree ==
    (Finished /\ \A m, n \in Nodes : m # n => tree[m].id # tree[n].id) =>
        /\ \A i, j \in DOMAIN emitted :
              i # j => context.cssRules[i].selector # context.cssRules[j].selector
        /\ \A i \in DOMAIN emitted :
              Cardinality({k \in DOMAIN result.html :
                              /\ result.html[k].kind = "open"
                              /\ result.html[k].class = context.cssRules[i].selector}) = 1

IsRadius(d) == d.prop = "border-radius"

\* the radius declarations of the rule at position i
RadiusOf(i) == SelectSeq(StylesOf(i), IsRadius)

\* C26 as stated: a node with a uniform cornerRadius r has the radius
\* declaration r px, a node with four per-corner radii has the four-value
\* declaration in their order, and no rule has more than one.
C26_RadiusUniformAndPerCorner ==
    Finished =>
        \A i \in DOMAIN emitted :
            /\ NodeAt(i).cornerRadius # 0 =>
                  RadiusOf(i) = <<Px("border-radius", NodeAt(i).cornerRadius)>>
            /\ NodeAt(i).rectangleCornerRadii.defined =>
                  RadiusOf(i) = <<Decl("border-radius", "px",
                                       NodeAt(i).rectangleCornerRadii.items)>>
            /\ Len(RadiusOf(i)) <= 1

\* C26, amended: a node with a non-zero cornerRadius r has the radius
\* declaration r px, whether or not it has per-corner radii; a node without
\* one (absent or 0) that has per-corner radii has the declaration of those
\* radii in their order; a node with neither has none; no rule has more
\* than one.
C26_RadiusUniformBeforePerCorner ==
    Finished =>
        \A i \in DOMAIN emitted :
            RadiusOf(i) =
                IF NodeAt(i).cornerRadius # 0
                THEN <<Px("border-radius", NodeAt(i).cornerRadius)>>
                ELSE IF NodeAt(i).rectangleCornerRadii.defined
                THEN <<Decl("border-radius", "px", NodeAt(i).rectangleCornerRadii.items)>>
                ELSE <<>>

\* a converted node with the uniform radius 4 and four different per-corner
\* radii, emitted with 4px, under a root with per-corner radii only
C26_Witness ==
    /\ Finished
    /\ Len(emitted) = 2
    /\ NodeAt(1).cornerRadius = 0
    /\ NodeAt(1).rectangleCornerRadii = Items(<<8, 16, 24, 32>>)
    /\ RadiusOf(1) = <<Decl("border-radius", "px", <<8, 16, 24, 32>>)>>
    /\ NodeAt(2).cornerRadius = 4
    /\ NodeAt(2).rectangleCornerRadii = Items(<<8, 16, 24, 32>>)
    /\ RadiusOf(2) = <<Px("border-radius", 4)>>

\* the outcome is an HTTP failure with a status that is not transient
IsPermanentFailure(outcome) ==
    outcome.kind = "error" /\ outcome.status \notin {0, 429, 503}

\* C27: after a request that fails with a status other than 429 and 503,
\* getFile makes no further request and throws an HttpException with that
\* status and the upstream err message, or 'Failed to fetch Figma file'
\* when there is none.
C27_PermanentFailureThrownAtOnce ==
    \A k \in DOMAIN responses :
        IsPermanentFailure(responses[k]) =>
            /\ k = Len(responses)
            /\ requests = k
            /\ apiPc = "thrown"
            /\ exception.thrown
            /\ exception.status = responses[k].status
            /\ exception.message = IF responses[k].err # "" THEN responses[k].err
                                   ELSE "Failed to fetch Figma file"

\* getFile has thrown for a 500 without message that followed a 429
C27_Witness ==
    /\ apiPc = "thrown"
    /\ Len(responses) = 2
    /\ responses[1].status = 429
    /\ responses[2] = HttpError(500, "")
    /\ requests = 2
    /\ exception = [thrown |-> TRUE, message |-> "Failed to fetch Figma file",
                    status |-> 500]

\* getFile has ended
Ended == apiPc \in {"returned", "thrown"}

\* C28: getFile terminates for every sequence of upstream outcomes: it makes
\* at most maxRetries + 1 requests, sleeps baseDelayMs * 2^k before retry
\* number k + 1, and ends by returning the mapped document or by throwing an
\* HttpException.
C28_GetFileTerminates ==
    /\ [](/\ requests <= maxRetries + 1
          /\ requests <= Len(delays) + 1
          /\ \A k \in DOMAIN delays : delays[k] = baseDelayMs * 2^(k - 1)
          /\ apiPc = "returned" =>
                /\ ~exception.thrown
                /\ responses[Len(responses)] = Success("document")
          /\ apiPc = "thrown" => exception.thrown)
    /\ (apiPc = "requesting" ~> Ended)

\* getFile has thrown after three requests, having slept 1000 and 2000 ms
C28_Witness ==
    /\ apiPc = "thrown"
    /\ requests = 3
    /\ delays = <<1000, 2000>>
    /\ exception.thrown

\* C29: a retry is scheduled only after a request that itself failed (429,
\* 503 or no response): once a request has got a successful response, no
\* sleep and no further request follow in that call, whatever the body is.
C29_NoRetryAfterResponse ==
    \A k \in DOMAIN responses :
        responses[k].kind = "response" =>
            /\ k = Len(responses)
            /\ requests = k
            /\ apiPc # "sleeping"
            /\ Len(delays) < k

====
